---- MODULE Spec2Model ----
(***************************************************************************)
(* Model of the job-search pipeline of isma221/job_scrapper_final:         *)
(*   - OllamaAnalyzer.analyze_job        (src/llm_analyzer.py)             *)
(*   - OllamaAnalyzer.analyze_jobs_batch (src/llm_analyzer.py)             *)
(*   - OllamaAnalyzer.test_connection    (src/llm_analyzer.py)             *)
(*   - search_jobs                       (src/main.py)                     *)
(*   - scrape_indeed_sync, scrape_linkedin_sync, scrape_rozee_sync         *)
(*     (src/indeed_scraper.py, linkedin_scraper.py, rozee_scraper.py)      *)
(*   - IndeedScraper.extract_experience  (src/indeed_scraper.py)           *)
(*   - the city code of scrape_rozee_sync (src/rozee_scraper.py)           *)
(*   - concurrent requests in analyze_jobs_batch (src/llm_analyzer.py)     *)
(* Each routine has its own specification (SpecAnalyzeJob, SpecBatch,      *)
(* SpecBatchStop, SpecSearch, SpecAdapters, SpecIndeedFair,                *)
(* SpecExtract, SpecCity, SpecRequests); the variables of the other        *)
(* routines stay at their idle values.                                     *)
(***************************************************************************)
EXTENDS Integers, Sequences, FiniteSets, TLC

VARIABLES
    \* ---- analyze_job ----
    aj_pc,          \* "loop" while in the retry loop, "done" after return
    attempt,        \* loop variable of `for attempt in range(max_retries)`
    retry_delay,    \* current back-off delay in seconds
    requests,       \* number of client.post calls issued so far
    waits,          \* sequence of asyncio.sleep durations taken so far
    parsedResp,     \* the response the returned tuple was parsed from, if any
    hist,           \* class of every attempt so far, in order
    aj_result       \* value returned by analyze_job

aj_vars == <<aj_pc, attempt, retry_delay, requests, waits, parsedResp, hist, aj_result>>

VARIABLES
    \* ---- analyze_jobs_batch ----
    b_pc,           \* "start", "gather", "pause", "done", or "exited"
    b_n,            \* len(jobs); the input jobs are numbered 1..b_n
    b_i,            \* loop variable i of `for i in range(0, len(jobs), batch_size)`
    running,        \* self.running, the stop flag
    sem,            \* value of the semaphore
    task,           \* per job: "idle", "waiting" (for the semaphore), "running", "done"
    batch_results,  \* per job of the current batch: what its task returned
    job_returns,    \* per job: what analyze_job returned to its task, if it has
    stop_at,        \* where the batch loop was when the stop flag was cleared
    pauses,         \* the durations of the sleeps between batches so far
    analyzed_jobs   \* the list analyze_jobs_batch builds and returns

b_vars == <<b_pc, b_n, b_i, running, sem, task, batch_results, job_returns, stop_at,
            pauses, analyzed_jobs>>

VARIABLES
    \* ---- search_jobs ----
    s_pc,           \* "start", "indeed", "indeed_sleep", "linkedin", "rozee", "analyze", "done"
    sources,        \* request.sources, a list of source identifiers
    probe,          \* how the probe request of test_connection ended
    s_conn,         \* what test_connection returned: "untested", "ok" or "failed"
    invoked,        \* the adapters invoked so far, in order
    scraped,        \* what the scraper of each invoked adapter did, in order
    all_jobs,       \* the merged job list
    batch_calls,    \* number of analyze_jobs_batch calls
    s_analyzed,     \* the list analyze_jobs_batch returned to search_jobs
    saved,          \* "no" until the result file is written, then "yes" or "failed"
    s_status,       \* HTTP status of the answer (0 while the request runs)
    sigint_handler, \* whose handler signal.signal has installed for SIGINT last
    s_running,      \* analyzer.running of the analyzer of the request
    relevant_jobs   \* the response list

s_vars == <<s_pc, sources, probe, s_conn, invoked, scraped, all_jobs, batch_calls,
            s_analyzed, saved, s_status, sigint_handler, s_running, relevant_jobs>>

VARIABLES
    \* ---- the adapters: scrape_indeed_sync, scrape_linkedin_sync, scrape_rozee_sync ----
    ad,                   \* the adapter whose entry point runs, or "none"
    ad_pc,                \* "start", "loop", "cards", "run", "done"
    jobs,                 \* the list `jobs` of the running adapter
    processed_count,      \* processed_count of the Indeed and the LinkedIn adapter
    page_num,             \* page_num of the Indeed adapter (from 0)
    first_page_retried,   \* first_page_retried of the Indeed adapter
    page,                 \* page of the Rozee adapter (from 1)
    previous_page_jobs,   \* previous_page_jobs of the Rozee adapter
    current_page_jobs,    \* current_page_jobs of the Rozee adapter
    n_cards,              \* number of cards found on the current result page
    card_i,               \* number of cards of the page the card loop has passed
    events,               \* number of DATA events the LinkedIn library has emitted
    driver,               \* the browser session: "none", "open" or "quit"
    ad_ret,               \* how the entry point ended: returned list, or raised
    driver_ref,           \* self.driver of the Rozee scraper is not None
    last_card,            \* how the latest card of the page fared: "none", "done", "failed"
    page_start,           \* len(jobs) when the card loop of the page began
    exit_path,            \* the way scrape_jobs was left, "none" before
    fetches,              \* the number of result pages asked for so far
    first_page_cards,     \* Indeed: the cards of page one at its first fetch, -1 before
    first_page_emitted,   \* Indeed: the cards of page one whose record the first walk appended
    refetch_same,         \* Indeed: the re-fetch of page one has shown what the first fetch did
    emitted_twice         \* Indeed: the record of one card has been appended a second time

\* what the adapters' code does not hold itself: the record of a run
ad_hist == <<driver_ref, last_card, page_start, exit_path, fetches, first_page_cards,
             first_page_emitted, refetch_same, emitted_twice>>

\* the part of the record that only the Indeed adapter writes
indeed_hist == <<first_page_cards, first_page_emitted, refetch_same, emitted_twice>>

ad_vars == <<ad, ad_pc, jobs, processed_count, page_num, first_page_retried, page,
             previous_page_jobs, current_page_jobs, n_cards, card_i, events, driver, ad_ret,
             ad_hist>>

VARIABLES
    \* ---- IndeedScraper.extract_experience ----
    ex_pc,          \* "call" before the call, "done" after the return
    ex_text,        \* the argument `text`, as a sequence of tokens
    ex_result       \* the string returned, as a sequence of tokens

ex_vars == <<ex_pc, ex_text, ex_result>>

VARIABLES
    \* ---- scrape_rozee_sync: the city code ----
    c_pc,           \* "new" before RozeeScraper() is built, "built", "done"
    cities_file,    \* cities.json: absent, unparsable, or holding a table
    cities,         \* self.cities
    location,       \* the argument `location`, a sequence of characters
    city_code       \* the code handed to scrape_jobs

c_vars == <<c_pc, cities_file, cities, location, city_code>>

VARIABLES
    \* ---- several requests in analyze_jobs_batch at the same time ----
    rq_pc,          \* per request: "start", "gather" or "done"
    rq_n,           \* per request: the number of jobs of its batch
    rq_sem,         \* per request: the value of the semaphore of its call
    rq_task         \* per request and job: "idle", "waiting", "running", "done"

rq_vars == <<rq_pc, rq_n, rq_sem, rq_task>>

vars == <<aj_vars, b_vars, s_vars, ad_vars, ex_vars, c_vars, rq_vars>>

\* what a step of one routine leaves alone: the variables of the others
aj_others == <<b_vars, s_vars, ad_vars, ex_vars, c_vars, rq_vars>>
b_others == <<aj_vars, s_vars, ad_vars, ex_vars, c_vars, rq_vars>>
s_others == <<aj_vars, b_vars, ad_vars, ex_vars, c_vars, rq_vars>>
ad_others == <<aj_vars, b_vars, s_vars, ex_vars, c_vars, rq_vars>>
ex_others == <<aj_vars, b_vars, s_vars, ad_vars, c_vars, rq_vars>>
c_others == <<aj_vars, b_vars, s_vars, ad_vars, ex_vars, rq_vars>>
rq_others == <<aj_vars, b_vars, s_vars, ad_vars, ex_vars, c_vars>>

--------------------------------------------------------------------------
(* Bounds of the model *)

\* longest message content, in tokens
MaxLen == 4

\* longest input list of analyze_jobs_batch
MaxJobs == 7

\* most records one adapter returns to search_jobs
MaxPerSource == 1

--------------------------------------------------------------------------
(* Program constants of analyze_job *)

\* a retry loop that allows one attempt too many
max_retries_extra == 3 + 1

max_retries == 3
InitialRetryDelay == 5

--------------------------------------------------------------------------
(* The inference endpoint's answers                                        *)

\* The message content is a string; it is modelled as a sequence of tokens:
\* an opening brace, a closing brace, text that is not JSON, and the
\* key/value members  "relevance_score": 80,  "relevance_score": 150,
\* "matched_skills": ["py"]  and  "matched_skills": null  (member
\* separators are left implicit).
Tokens == {"{", "}", "x", "s80", "s150", "kpy", "knull"}

Contents == UNION {[1..k -> Tokens] : k \in 0..MaxLen}

NoResp == [kind |-> "none", status |-> 0, fmt |-> "none", content |-> <<>>]

\* httpx.ReadTimeout raised by client.post
TimeoutResp == [kind |-> "timeout", status |-> 0, fmt |-> "none", content |-> <<>>]

\* any other exception raised by client.post (connection refused, ...)
ErrorResp == [kind |-> "error", status |-> 0, fmt |-> "none", content |-> <<>>]

ErrorStatuses == {404, 500}

\* a response whose status is not 200
Non200Resps ==
    {[kind |-> "http", status |-> s, fmt |-> "none", content |-> <<>>] : s \in ErrorStatuses}

\* status 200: a body that is not JSON ("invalid"), a JSON body without
\* message.content ("nomsg"), or a chat message with a content string
Ok200Resps ==
    {[kind |-> "http", status |-> 200, fmt |-> f, content |-> <<>>] : f \in {"invalid", "nomsg"}}
    \cup {[kind |-> "http", status |-> 200, fmt |-> "chat", content |-> c] : c \in Contents}

AttemptOutcomes == {TimeoutResp, ErrorResp} \cup Non200Resps \cup Ok200Resps

--------------------------------------------------------------------------
(* Parsing of a 200 response, as analyze_job does it                       *)

\* response.status_code == 200
StatusIsOk(resp) == resp.status = 200

\* response.json() succeeds and
\* "message" in json_data and "content" in json_data["message"]
HasMessageContent(resp) == resp.fmt = "chat"

OpenIdx(c) == {i \in 1..Len(c) : c[i] = "{"}
CloseIdx(c) == {i \in 1..Len(c) : c[i] = "}"}

MinOf(S) == CHOOSE m \in S : \A n \in S : m <= n
MaxOf(S) == CHOOSE m \in S : \A n \in S : m >= n

\* re.search(r'\{.*\}', content, re.DOTALL) finds a match: the leftmost
\* opening brace that has a closing brace after it
JsonMatch(c) ==
    /\ OpenIdx(c) # {}
    /\ CloseIdx(c) # {}
    /\ MinOf(OpenIdx(c)) < MaxOf(CloseIdx(c))

\* json_match.group(): greedy, from the first "{" to the last "}"
MatchGroup(c) == SubSeq(c, MinOf(OpenIdx(c)), MaxOf(CloseIdx(c)))

ScoreTokens == {"s80", "s150"}
SkillTokens == {"kpy", "knull"}

\* the value None (JSON null), written as a sequence no list of skill names
\* equals
JsonNull == <<"\\null">>

\* json.loads(span) does not raise: between the outer braces there are only
\* members (a brace or free text inside makes the span invalid JSON)
JsonLoadsOk(span) ==
    \A i \in 2..(Len(span) - 1) : span[i] \in ScoreTokens \cup SkillTokens

ScoreValue(tok) == IF tok = "s80" THEN 80 ELSE 150
SkillsValue(tok) == IF tok = "kpy" THEN <<"py">> ELSE JsonNull

\* json.loads(span): the dict; a repeated key keeps its last value
JsonLoads(span) ==
    LET sc == {i \in 1..Len(span) : span[i] \in ScoreTokens}
        sk == {i \in 1..Len(span) : span[i] \in SkillTokens}
    IN  [hasScore  |-> sc # {},
         score     |-> IF sc # {} THEN ScoreValue(span[MaxOf(sc)]) ELSE 0,
         hasSkills |-> sk # {},
         skills    |-> IF sk # {} THEN SkillsValue(span[MaxOf(sk)]) ELSE <<>>]

\* the key is looked up under a wrong name, so the default is always taken
GetScoreIgnored(analysis) == 0

\* a default other than 0 for a missing relevance_score
GetScoreWrongDefault(analysis) == IF analysis.hasScore THEN analysis.score ELSE 50

\* analysis.get('relevance_score', 0)
GetScore(analysis) == IF analysis.hasScore THEN analysis.score ELSE 0

\* analysis.get('matched_skills', [])
GetSkills(analysis) == IF analysis.hasSkills THEN analysis.skills ELSE <<>>

\* the tuple returned on success
SuccessResult(analysis) == [score |-> GetScore(analysis), skills |-> GetSkills(analysis)]

\* falling out of the loop without a return statement (None)
FailedResultNone == [score |-> -1, skills |-> <<"None">>]

\* `return 0, []` after the loop
FailedResult == [score |-> 0, skills |-> <<>>]

NoResult == [score |-> -1, skills |-> <<>>]

\* the attempt reaches the `return (...)` inside the loop
AttemptReturns(resp) ==
    /\ resp.kind = "http"
    /\ StatusIsOk(resp)
    /\ HasMessageContent(resp)
    /\ JsonMatch(resp.content)
    /\ JsonLoadsOk(MatchGroup(resp.content))

\* which branch of the loop body an attempt ends in
Classify(resp) ==
    CASE resp.kind = "timeout" -> "timeout"
      [] resp.kind = "error" -> "error"
      [] resp.kind = "http" /\ ~StatusIsOk(resp) -> "non200"
      [] resp.kind = "http" /\ StatusIsOk(resp) /\ resp.fmt = "invalid" -> "invalid"
      [] resp.kind = "http" /\ StatusIsOk(resp) /\ resp.fmt = "nomsg" -> "nomsg"
      [] resp.kind = "http" /\ StatusIsOk(resp) /\ resp.fmt = "chat"
            /\ ~JsonMatch(resp.content) -> "nojson"
      [] resp.kind = "http" /\ StatusIsOk(resp) /\ resp.fmt = "chat"
            /\ JsonMatch(resp.content)
            /\ ~JsonLoadsOk(MatchGroup(resp.content)) -> "badjson"
      [] OTHER -> "ok"

--------------------------------------------------------------------------
(* analyze_job                                                             *)

AJInit ==
    /\ aj_pc = "loop"
    /\ attempt = 0
    /\ retry_delay = InitialRetryDelay
    /\ requests = 0
    /\ waits = <<>>
    /\ parsedResp = NoResp
    /\ hist = <<>>
    /\ aj_result = NoResult

\* `for attempt in range(max_retries)`: the loop body runs
InLoop == aj_pc = "loop" /\ attempt < max_retries

\* the request of this attempt is sent and its outcome is `resp`
Sent(resp) ==
    /\ requests' = requests + 1
    /\ hist' = Append(hist, Classify(resp))

\* the loop body ended without `return`: next iteration, or fall out of the
\* loop to `return 0, []`
NextIteration ==
    /\ attempt' = attempt + 1
    /\ parsedResp' = parsedResp
    /\ IF attempt + 1 < max_retries
         THEN aj_pc' = "loop" /\ aj_result' = aj_result
         ELSE aj_pc' = "done" /\ aj_result' = FailedResult

\* `if attempt < max_retries - 1` in the ReadTimeout handler
SleepsAfterTimeout(a) == a < max_retries - 1

\* the delay is not doubled
NextDelaySame(d) == d

\* `retry_delay *= 2`
NextDelay(d) == d * 2

\* client.post raises httpx.ReadTimeout
AttemptTimeout ==
    /\ InLoop
    /\ Sent(TimeoutResp)
    /\ IF SleepsAfterTimeout(attempt)
         THEN /\ waits' = Append(waits, retry_delay)
              /\ retry_delay' = NextDelay(retry_delay)
         ELSE UNCHANGED <<waits, retry_delay>>
    /\ NextIteration
    /\ UNCHANGED aj_others

\* another exception treated like a read timeout
AttemptErrorBacksOff ==
    /\ InLoop
    /\ Sent(ErrorResp)
    /\ waits' = Append(waits, retry_delay)
    /\ retry_delay' = NextDelay(retry_delay)
    /\ NextIteration
    /\ UNCHANGED aj_others

\* client.post raises another exception
AttemptError ==
    /\ InLoop
    /\ Sent(ErrorResp)
    /\ UNCHANGED <<waits, retry_delay>>
    /\ NextIteration
    /\ UNCHANGED aj_others

\* the response has a status other than 200
AttemptNon200 ==
    /\ InLoop
    /\ \E resp \in Non200Resps : Sent(resp)
    /\ UNCHANGED <<waits, retry_delay>>
    /\ NextIteration
    /\ UNCHANGED aj_others

\* the response has status 200
Attempt200 ==
    /\ InLoop
    /\ \E resp \in Ok200Resps :
        /\ Sent(resp)
        /\ IF AttemptReturns(resp)
             THEN /\ aj_result' = SuccessResult(JsonLoads(MatchGroup(resp.content)))
                  /\ parsedResp' = resp
                  /\ aj_pc' = "done"
                  /\ attempt' = attempt
             ELSE NextIteration
    /\ UNCHANGED <<waits, retry_delay>>
    /\ UNCHANGED aj_others

AJNext == AttemptTimeout \/ AttemptError \/ AttemptNon200 \/ Attempt200

--------------------------------------------------------------------------
(* analyze_jobs_batch                                                      *)

\* `sem = asyncio.Semaphore(3)`
SemaphoreSize == 3

\* `batch_size = 5`
batch_size == 5

\* the stop flag has not been cleared
NoStop == [pc |-> "none", i |-> 0]

NoEntry == [job |-> 0, relevance_score |-> 0, matched_skills |-> <<>>, error |-> FALSE]

\* What analyze_job can return to analyze_single_job: (0, []) after three
\* failed attempts, or the tuple parsed from an embedded object.
BatchObjects == {<<"{", "s80", "kpy", "}">>, <<"{", "s80", "knull", "}">>}

AnalyzeJobReturns == {FailedResult} \cup {SuccessResult(JsonLoads(o)) : o \in BatchObjects}

\* len(skills) does not raise
HasLen(skills) == skills # JsonNull

\* the body of analyze_single_job inside `async with sem`, given the tuple
\* analyze_job returned: the scored dict, or the dict of the except branch
\* when building the result raises (len(skills) of a value without length)
SingleJobResult(j, ret) ==
    IF HasLen(ret.skills)
      THEN [job |-> j, relevance_score |-> ret.score, matched_skills |-> ret.skills,
            error |-> FALSE]
      ELSE [job |-> j, relevance_score |-> 0, matched_skills |-> <<>>, error |-> TRUE]

\* the dicts of the except branch are taken for exceptions and dropped
IsDictWithoutError(r) == r.job # 0 /\ ~r.error

\* `isinstance(result, dict)`: every value analyze_single_job returns is a dict
IsDict(r) == r.job # 0

\* jobs[i:i + batch_size], as job numbers
BatchOf(i, n) == {j \in 1..n : i < j /\ j <= i + batch_size}

\* the job numbers of a set, ascending
RECURSIVE AscSeq(_)
AscSeq(S) == IF S = {} THEN <<>>
             ELSE LET m == MinOf(S) IN <<m>> \o AscSeq(S \ {m})

\* the results of the batch in task order, those that are dicts only
SuccessfulResults(i, n, res) ==
    SelectSeq([k \in 1..Cardinality(BatchOf(i, n)) |-> res[AscSeq(BatchOf(i, n))[k]]], IsDict)

\* an unstable sort: e goes in front of the entries that have its own score
RECURSIVE InsertDescUnstable(_, _)
InsertDescUnstable(e, sorted) ==
    IF sorted = <<>> THEN <<e>>
    ELSE IF Head(sorted).relevance_score > e.relevance_score
           THEN <<Head(sorted)>> \o InsertDescUnstable(e, Tail(sorted))
           ELSE <<e>> \o sorted

\* insert e behind every entry whose score is not smaller than its own
RECURSIVE InsertDesc(_, _)
InsertDesc(e, sorted) ==
    IF sorted = <<>> THEN <<e>>
    ELSE IF Head(sorted).relevance_score >= e.relevance_score
           THEN <<Head(sorted)>> \o InsertDesc(e, Tail(sorted))
           ELSE <<e>> \o sorted

\* analyzed_jobs.sort(key=lambda x: x.get('relevance_score', 0), reverse=True):
\* descending and stable
RECURSIVE SortDesc(_)
SortDesc(list) ==
    IF list = <<>> THEN <<>>
    ELSE InsertDesc(list[Len(list)], SortDesc(SubSeq(list, 1, Len(list) - 1)))

BIdle ==
    /\ b_pc = "idle"
    /\ b_n = 0
    /\ b_i = 0
    /\ running = TRUE
    /\ sem = SemaphoreSize
    /\ task = <<>>
    /\ batch_results = <<>>
    /\ job_returns = <<>>
    /\ stop_at = NoStop
    /\ pauses = <<>>
    /\ analyzed_jobs = <<>>

\* the call analyze_jobs_batch(jobs, requirements) on a fresh analyzer
BInit ==
    /\ b_pc = "start"
    /\ b_n \in 0..MaxJobs
    /\ b_i = 0
    /\ running = TRUE
    /\ sem = SemaphoreSize
    /\ task = [j \in 1..b_n |-> "idle"]
    /\ batch_results = [j \in 1..b_n |-> NoEntry]
    /\ job_returns = [j \in 1..b_n |-> NoResult]
    /\ stop_at = NoStop
    /\ pauses = <<>>
    /\ analyzed_jobs = <<>>

\* the loop head does not look at the stop flag
LoopHeadIgnoresFlag(i) ==
    /\ b_i' = i
    /\ IF i >= b_n
         THEN /\ analyzed_jobs' = SortDesc(analyzed_jobs)
              /\ b_pc' = "done"
              /\ UNCHANGED task
         ELSE /\ task' = [j \in 1..b_n |-> IF j \in BatchOf(i, b_n) THEN "waiting" ELSE "idle"]
              /\ b_pc' = "gather"
              /\ UNCHANGED analyzed_jobs

\* The head of one iteration of the batch loop with loop variable i:
\* the loop is over, or the stop flag is seen, or the tasks of the batch
\* are created and gathered.
LoopHead(i) ==
    /\ b_i' = i
    /\ IF i >= b_n \/ ~running
         THEN /\ analyzed_jobs' = SortDesc(analyzed_jobs)
              /\ b_pc' = "done"
              /\ UNCHANGED task
         ELSE /\ task' = [j \in 1..b_n |-> IF j \in BatchOf(i, b_n) THEN "waiting" ELSE "idle"]
              /\ b_pc' = "gather"
              /\ UNCHANGED analyzed_jobs

\* analyze_jobs_batch is entered
BatchStart ==
    /\ b_pc = "start"
    /\ LoopHead(0)
    /\ UNCHANGED <<b_n, running, sem, batch_results, job_returns, stop_at, pauses>>
    /\ UNCHANGED b_others

\* the semaphore never blocks
CanAcquireAlways(v) == TRUE

\* sem.acquire() succeeds without waiting
CanAcquire(v) == v > 0

\* a task enters `async with sem`; tasks are started, and waiters are woken,
\* in the order of the batch
TaskAcquire(j) ==
    /\ b_pc = "gather"
    /\ task[j] = "waiting"
    /\ \A k \in 1..b_n : task[k] = "waiting" => j <= k
    /\ CanAcquire(sem)
    /\ sem' = sem - 1
    /\ task' = [task EXCEPT ![j] = "running"]
    /\ UNCHANGED <<b_pc, b_n, b_i, running, batch_results, job_returns, stop_at, pauses,
                   analyzed_jobs>>
    /\ UNCHANGED b_others

\* analyze_job returns to a task, which builds its dict and leaves
\* `async with sem`
TaskFinish(j) ==
    /\ b_pc = "gather"
    /\ task[j] = "running"
    /\ \E ret \in AnalyzeJobReturns :
          /\ job_returns' = [job_returns EXCEPT ![j] = ret]
          /\ batch_results' = [batch_results EXCEPT ![j] = SingleJobResult(j, ret)]
    /\ sem' = sem + 1
    /\ task' = [task EXCEPT ![j] = "done"]
    /\ UNCHANGED <<b_pc, b_n, b_i, running, stop_at, pauses, analyzed_jobs>>
    /\ UNCHANGED b_others

\* a pause after every batch, the last one too
PauseFollowsAlways(i, n) == TRUE

\* `if i + batch_size < len(jobs)`: a pause follows the batch
PauseFollows(i, n) == i + batch_size < n

\* `await asyncio.sleep(5)` between two batches
BatchPause == 5

\* asyncio.gather returns: the dicts are appended, then the pause before
\* the next batch starts, or the loop ends and the list is sorted
GatherDone ==
    /\ b_pc = "gather"
    /\ \A j \in BatchOf(b_i, b_n) : task[j] = "done"
    /\ LET extended == analyzed_jobs \o SuccessfulResults(b_i, b_n, batch_results)
       IN  IF PauseFollows(b_i, b_n)
             THEN /\ analyzed_jobs' = extended
                  /\ pauses' = Append(pauses, BatchPause)
                  /\ b_pc' = "pause"
             ELSE /\ analyzed_jobs' = SortDesc(extended)
                  /\ pauses' = pauses
                  /\ b_pc' = "done"
    /\ task' = [j \in 1..b_n |-> "idle"]
    /\ batch_results' = [j \in 1..b_n |-> NoEntry]
    /\ UNCHANGED <<b_n, b_i, running, sem, job_returns, stop_at>>
    /\ UNCHANGED b_others

\* asyncio.sleep(5) between two batches returns and the next iteration starts
PauseEnd ==
    /\ b_pc = "pause"
    /\ LoopHead(b_i + batch_size)
    /\ UNCHANGED <<b_n, running, sem, batch_results, job_returns, stop_at, pauses>>
    /\ UNCHANGED b_others

\* _signal_handler: SIGINT clears the flag and sys.exit(0) ends the process
SignalHandler ==
    /\ b_pc \in {"gather", "pause"}
    /\ running' = FALSE
    /\ b_pc' = "exited"
    /\ UNCHANGED <<b_n, b_i, sem, task, batch_results, job_returns, stop_at, pauses,
                   analyzed_jobs>>
    /\ UNCHANGED b_others

\* The holder of the analyzer clears the stop flag (`analyzer.running = False`)
\* while analyze_jobs_batch runs, and the process goes on; the place of the
\* batch loop is remembered.
StopRequested ==
    /\ b_pc \in {"gather", "pause"}
    /\ running
    /\ running' = FALSE
    /\ stop_at' = [pc |-> b_pc, i |-> b_i]
    /\ UNCHANGED <<b_pc, b_n, b_i, sem, task, batch_results, job_returns, pauses,
                   analyzed_jobs>>
    /\ UNCHANGED b_others

\* analyze_jobs_batch with a stop flag that is cleared from outside
BNextStop ==
    \/ BatchStart
    \/ \E j \in 1..b_n : TaskAcquire(j)
    \/ \E j \in 1..b_n : TaskFinish(j)
    \/ GatherDone
    \/ PauseEnd
    \/ StopRequested

BNext ==
    \/ BatchStart
    \/ \E j \in 1..b_n : TaskAcquire(j)
    \/ \E j \in 1..b_n : TaskFinish(j)
    \/ GatherDone
    \/ PauseEnd
    \/ SignalHandler

--------------------------------------------------------------------------
(* test_connection and search_jobs                                         *)

\* what the probe request of test_connection can end in
ProbeOutcomes ==
    {TimeoutResp, ErrorResp} \cup Non200Resps
    \cup {[kind |-> "http", status |-> 200, fmt |-> "chat", content |-> <<>>]}

\* every response counts as a success, whatever its status
TestConnectionAnyStatus(outcome) == outcome.kind = "http"

\* test_connection: `success = response.status_code == 200`, and False from
\* the except branch when the request raises
TestConnection(outcome) == outcome.kind = "http" /\ outcome.status = 200

\* the pre-flight check is missing
GateRejectsNever(ok) == FALSE

\* `if not await analyzer.test_connection(): raise HTTPException(503, ...)`
GateRejects(ok) == ~ok

\* status_code of the HTTPException raised at the pre-flight gate
GateStatus == 503

\* `except Exception as e: raise HTTPException(status_code=500, ...)` around
\* the whole body: it also catches the HTTPException raised inside the body
\* and replaces it
OuterExcept(raised_status) == 500

AdapterNames == {"indeed", "linkedin", "rozee"}

\* the linkedin block comes first
StageOrderLinkedinFirst == <<"linkedin", "indeed", "rozee">>

\* the order of the three `if "<name>" in request.sources` blocks
StageOrder == <<"indeed", "linkedin", "rozee">>

\* no block is entered after block k
StageAfterNone(k, srcs) == "analyze"

\* the lists request.sources can be: the identifiers in any order
SourceLists ==
    {srcs \in UNION {[1..k -> AdapterNames] : k \in 0..3} :
        \A i, j \in 1..Len(srcs) : srcs[i] = srcs[j] => i = j}

\* `"<name>" in request.sources`
Requested(name, srcs) == \E i \in 1..Len(srcs) : srcs[i] = name

\* the first block after block k whose source was requested, or the analysis
StageAfter(k, srcs) ==
    LET later == {m \in (k + 1)..3 : Requested(StageOrder[m], srcs)}
    IN  IF later = {} THEN "analyze" ELSE StageOrder[MinOf(later)]

\* what a scraper hands to get_<source>_jobs: it raises ("raise"), or it
\* returns up to MaxPerSource records; a record is fit for JobResponse
\* (valid) or has a required field that is None
ScraperOutcomes ==
    {[raises |-> TRUE, records |-> <<>>]}
    \cup {[raises |-> FALSE, records |-> r] :
            r \in UNION {[1..k -> BOOLEAN] : k \in 0..MaxPerSource}}

\* get_indeed_jobs / get_linkedin_jobs / get_rozee_jobs: the records tagged
\* with the source, or [] from the except branch
GetJobs(name, out) ==
    IF out.raises THEN <<>>
    ELSE [k \in 1..Len(out.records) |-> [source |-> name, n |-> k, valid |-> out.records[k]]]

\* what analyze_job returns in a search: (0, []) or a score with skills; the
\* dict of analyze_single_job's except branch is to search_jobs one more
\* record with score 0 and no skills, since it does not read the error key
SearchReturns == {FailedResult, SuccessResult(JsonLoads(<<"{", "s80", "kpy", "}">>))}

\* the scored list analyze_jobs_batch returns for the merged list when
\* analyze_job returns rets[k] for job k and the run is not interrupted
BatchOutput(merged, rets) ==
    SortDesc([k \in 1..Len(merged) |-> SingleJobResult(k, rets[k])])

\* no record is skipped
ResponseBuiltAlways(merged, e) == TRUE

\* JobResponse(...) does not raise for this scored record
ResponseBuilt(merged, e) == merged[e.job].valid

\* the response object of a scored record
JobResponse(merged, e) ==
    [source |-> merged[e.job].source, n |-> merged[e.job].n,
     relevance_score |-> e.relevance_score, matched_skills |-> e.matched_skills]

\* the loop `for job in analyzed_jobs` of search_jobs
RelevantJobs(merged, analyzed) ==
    LET keep(e) == ResponseBuilt(merged, e)
        kept == SelectSeq(analyzed, keep)
    IN  [k \in 1..Len(kept) |-> JobResponse(merged, kept[k])]

SIdle ==
    /\ s_pc = "idle"
    /\ sources = <<>>
    /\ probe = NoResp
    /\ s_conn = "untested"
    /\ invoked = <<>>
    /\ scraped = <<>>
    /\ all_jobs = <<>>
    /\ batch_calls = 0
    /\ s_analyzed = <<>>
    /\ saved = "no"
    /\ s_status = 0
    /\ sigint_handler = "server"
    /\ s_running = TRUE
    /\ relevant_jobs = <<>>

\* a request arrives
SInit ==
    /\ s_pc = "start"
    /\ sources \in SourceLists
    /\ probe = NoResp
    /\ s_conn = "untested"
    /\ invoked = <<>>
    /\ scraped = <<>>
    /\ all_jobs = <<>>
    /\ batch_calls = 0
    /\ s_analyzed = <<>>
    /\ saved = "no"
    /\ s_status = 0
    /\ sigint_handler = "server"
    /\ s_running = TRUE
    /\ relevant_jobs = <<>>

\* OllamaAnalyzer(ollama_url) does not raise: OLLAMA_API is set, so
\* ngrok_url.rstrip('/') is called on a string
AnalyzerBuilt(url_set) == url_set

\* the analyzer is built and test_connection is awaited
Preflight ==
    /\ s_pc = "start"
    /\ \E url_set \in BOOLEAN, outcome \in ProbeOutcomes :
        LET ok == TestConnection(outcome) IN
        IF ~AnalyzerBuilt(url_set)
          THEN /\ s_conn' = s_conn
               /\ probe' = probe
               /\ s_status' = OuterExcept(0)
               /\ s_pc' = "done"
               /\ sigint_handler' = sigint_handler
          ELSE /\ s_conn' = IF ok THEN "ok" ELSE "failed"
               /\ probe' = outcome
               /\ sigint_handler' = "analyzer"
               /\ IF GateRejects(ok)
                    THEN /\ s_status' = OuterExcept(GateStatus)
                         /\ s_pc' = "done"
                    ELSE /\ s_status' = s_status
                         /\ s_pc' = StageAfter(0, sources)
    /\ UNCHANGED <<sources, invoked, scraped, all_jobs, batch_calls, s_analyzed, saved,
                   s_running, relevant_jobs>>
    /\ UNCHANGED s_others

\* The handler for SIGINT after the entry point of an adapter has run:
\* scrape_rozee_sync builds a RozeeScraper, whose __init__ installs its own
\* _signal_handler; the other two entry points install none.
HandlerAfter(name, handler) == IF name = "rozee" THEN "rozee" ELSE handler

\* one `if "<name>" in request.sources` block: the adapter is awaited and
\* its records, if any, extend all_jobs
AdapterBlock(k, next) ==
    /\ s_pc = StageOrder[k]
    /\ invoked' = Append(invoked, StageOrder[k])
    /\ sigint_handler' = HandlerAfter(StageOrder[k], sigint_handler)
    /\ \E out \in ScraperOutcomes :
          /\ scraped' = Append(scraped, out)
          /\ all_jobs' = all_jobs \o GetJobs(StageOrder[k], out)
    /\ s_pc' = next
    /\ UNCHANGED <<sources, probe, s_conn, batch_calls, s_analyzed, saved, s_status,
                   s_running, relevant_jobs>>
    /\ UNCHANGED s_others

AdapterIndeed == AdapterBlock(1, "indeed_sleep")

\* `await asyncio.sleep(5)` at the end of the indeed block
IndeedSleepEnd ==
    /\ s_pc = "indeed_sleep"
    /\ s_pc' = StageAfter(1, sources)
    /\ UNCHANGED <<sources, probe, s_conn, invoked, scraped, all_jobs, batch_calls,
                   s_analyzed, saved, s_status, sigint_handler, s_running, relevant_jobs>>
    /\ UNCHANGED s_others

AdapterLinkedin == AdapterBlock(2, StageAfter(2, sources))

AdapterRozee == AdapterBlock(3, StageAfter(3, sources))

\* analyze_jobs_batch is awaited, the scored records are turned into the
\* response and written to the result file; an error while writing the
\* file is answered by the outer except
AnalyzeAndRespond ==
    /\ s_pc = "analyze"
    /\ batch_calls' = batch_calls + 1
    /\ \E rets \in [1..Len(all_jobs) -> SearchReturns], written \in BOOLEAN :
        /\ s_analyzed' = BatchOutput(all_jobs, rets)
        /\ relevant_jobs' = RelevantJobs(all_jobs, BatchOutput(all_jobs, rets))
        /\ saved' = IF written THEN "yes" ELSE "failed"
        /\ s_status' = IF written THEN 200 ELSE OuterExcept(0)
    /\ s_pc' = "done"
    /\ UNCHANGED <<sources, probe, s_conn, invoked, scraped, all_jobs, sigint_handler,
                   s_running>>
    /\ UNCHANGED s_others

\* SIGINT is delivered while analyze_jobs_batch is awaited: the handler
\* installed last runs. OllamaAnalyzer._signal_handler clears the flag of
\* its analyzer and calls sys.exit(0); RozeeScraper._signal_handler finds no
\* driver (scrape_jobs has cleared it) and calls sys.exit(0).
SigintDuringBatch ==
    /\ s_pc = "analyze"
    /\ s_running' = IF sigint_handler = "analyzer" THEN FALSE ELSE s_running
    /\ s_pc' = "exited"
    /\ UNCHANGED <<sources, probe, s_conn, invoked, scraped, all_jobs, batch_calls,
                   s_analyzed, saved, s_status, sigint_handler, relevant_jobs>>
    /\ UNCHANGED s_others

SNext ==
    \/ Preflight
    \/ AdapterIndeed
    \/ IndeedSleepEnd
    \/ AdapterLinkedin
    \/ AdapterRozee
    \/ AnalyzeAndRespond
    \/ SigintDuringBatch

--------------------------------------------------------------------------
(* The adapters: indeed_scraper.py, linkedin_scraper.py, rozee_scraper.py  *)

\* `max_jobs = 10` of scrape_linkedin_sync, `max_jobs: int = 10` of both
\* scrape_jobs
max_jobs == 10

\* a page cap of four pages
IndeedPageCapFour == 3 + 1

\* `page_num < 3` of the Indeed adapter
IndeedPageCap == 3

\* the most cards one result page shows
CardsPerPage == 3


\* the most DATA events the LinkedIn library emits in one run
MaxEvents == 11
\* longest enumerated argument of extract_experience, in tokens
MaxText == 4
\* longest enumerated location, in characters
MaxLoc == 3
\* the most requests the server handles at the same time
MaxRequests == 2

\* get_text of an element that was not found
NoText == "<None>"

\* `if title and company`: a text that is neither None nor empty
Truthy(text) == text # NoText /\ text # ""

\* what the selectors of the Indeed adapter find on a card
IndeedCards == [title : {NoText, "", "dev"}, company : {NoText, "", "acme"}]

\* the listings Rozee and LinkedIn hand over: `.text` of an element that is
\* present may be empty. A listing stands for its identity (title, company,
\* location) as well.
Listings == {[title |-> "dev", company |-> "acme"], [title |-> "", company |-> "acme"]}

\* the entry point has not ended
NoReturn == [kind |-> "none", jobs |-> <<>>]

\* `return jobs` / `return []`
Returns(list) == [kind |-> "return", jobs |-> list]

\* an exception leaves the entry point
Raises == [kind |-> "raise", jobs |-> <<>>]

\* the limit is taken to be reached one record late
LimitReachedLate(n) == n > max_jobs

\* `processed_count >= max_jobs`, `len(jobs) >= max_jobs`, and the negation
\* of `processed_count < max_jobs` and of `len(jobs) < max_jobs`
LimitReached(n) == n >= max_jobs

AdIdle ==
    /\ ad = "none"
    /\ ad_pc = "idle"
    /\ jobs = <<>>
    /\ processed_count = 0
    /\ page_num = 0
    /\ first_page_retried = FALSE
    /\ page = 1
    /\ previous_page_jobs = {}
    /\ current_page_jobs = {}
    /\ n_cards = 0
    /\ card_i = 0
    /\ events = 0
    /\ driver = "none"
    /\ ad_ret = NoReturn
    /\ driver_ref = FALSE
    /\ last_card = "none"
    /\ page_start = 0
    /\ exit_path = "none"
    /\ fetches = 0
    /\ first_page_cards = -1
    /\ first_page_emitted = {}
    /\ refetch_same = TRUE
    /\ emitted_twice = FALSE

\* one of the three entry points is called
AdInit ==
    /\ ad \in AdapterNames
    /\ ad_pc = "start"
    /\ jobs = <<>>
    /\ processed_count = 0
    /\ page_num = 0
    /\ first_page_retried = FALSE
    /\ page = 1
    /\ previous_page_jobs = {}
    /\ current_page_jobs = {}
    /\ n_cards = 0
    /\ card_i = 0
    /\ events = 0
    /\ driver = "none"
    /\ ad_ret = NoReturn
    /\ driver_ref = FALSE
    /\ last_card = "none"
    /\ page_start = 0
    /\ exit_path = "none"
    /\ fetches = 0
    /\ first_page_cards = -1
    /\ first_page_emitted = {}
    /\ refetch_same = TRUE
    /\ emitted_twice = FALSE

\* ---- Indeed ----

\* `browser = await uc.start(...)`: the browser starts, or the outer except
\* returns []
IndeedStart ==
    /\ ad = "indeed" /\ ad_pc = "start"
    /\ \E started \in BOOLEAN :
          IF started
            THEN /\ driver' = "open"
                 /\ ad_pc' = "loop"
                 /\ UNCHANGED <<ad_ret, exit_path>>
            ELSE /\ driver' = driver
                 /\ ad_pc' = "done"
                 /\ ad_ret' = Returns(<<>>)
                 /\ exit_path' = "start_error"
    /\ UNCHANGED <<ad, jobs, processed_count, page_num, first_page_retried, page,
                   previous_page_jobs, current_page_jobs, n_cards, card_i, events>>
    /\ UNCHANGED <<driver_ref, last_card, page_start, fetches, indeed_hist>>
    /\ UNCHANGED ad_others

\* `while processed_count < max_jobs and page_num < 3`
IndeedLoopGoesOn == ~LimitReached(processed_count) /\ page_num < IndeedPageCap

\* cards on the second page send the search back to the first page at
\* every visit
GoesBackEveryTime(p, n, retried) == p = 1 /\ n > 0

\* `if page_num == 1 and len(job_cards) > 0 and not first_page_retried`
GoesBack(p, n, retried) == p = 1 /\ n > 0 /\ ~retried

\* One pass of the while loop up to the card loop: the result page is
\* fetched; an exception breaks the loop and the jobs so far are returned;
\* cards on the second page send the loop back to the first page once.
\* Nothing on the way out of scrape_jobs stops the browser.
IndeedFetchPage ==
    /\ ad = "indeed" /\ ad_pc = "loop"
    /\ IndeedLoopGoesOn
    /\ fetches' = fetches + 1
    /\ \E loaded \in BOOLEAN, n \in 0..CardsPerPage :
          IF ~loaded
            THEN /\ ad_pc' = "done"
                 /\ ad_ret' = Returns(jobs)
                 /\ exit_path' = "fetch_error"
                 /\ UNCHANGED <<page_num, first_page_retried, n_cards, card_i, last_card,
                                page_start, first_page_cards, refetch_same>>
            ELSE /\ first_page_cards' =
                        IF page_num = 0 /\ ~first_page_retried THEN n ELSE first_page_cards
                 /\ refetch_same' =
                        IF page_num = 0 /\ first_page_retried
                          THEN n = first_page_cards ELSE refetch_same
                 /\ IF GoesBack(page_num, n, first_page_retried)
                      THEN /\ page_num' = 0
                           /\ first_page_retried' = TRUE
                           /\ UNCHANGED <<ad_pc, ad_ret, n_cards, card_i, last_card,
                                          page_start, exit_path>>
                      ELSE /\ n_cards' = n
                           /\ card_i' = 0
                           /\ last_card' = "none"
                           /\ page_start' = Len(jobs)
                           /\ ad_pc' = "cards"
                           /\ UNCHANGED <<ad_ret, page_num, first_page_retried, exit_path>>
    /\ UNCHANGED <<ad, jobs, processed_count, page, previous_page_jobs, current_page_jobs,
                   events, driver, driver_ref, first_page_emitted, emitted_twice>>
    /\ UNCHANGED ad_others

\* the while condition is false: `return jobs`
IndeedLoopExit ==
    /\ ad = "indeed" /\ ad_pc = "loop"
    /\ ~IndeedLoopGoesOn
    /\ ad_pc' = "done"
    /\ ad_ret' = Returns(jobs)
    /\ exit_path' = IF LimitReached(processed_count) THEN "limit" ELSE "cap"
    /\ UNCHANGED <<ad, jobs, processed_count, page_num, first_page_retried, page,
                   previous_page_jobs, current_page_jobs, n_cards, card_i, events, driver>>
    /\ UNCHANGED <<driver_ref, last_card, page_start, fetches, indeed_hist>>
    /\ UNCHANGED ad_others

\* What the record of the run notes of the card that is taken up, `emits`
\* telling whether its record is appended: on the first walk of page one
\* the cards that gave a record, on the second walk whether a card gives
\* its record again and whether the page shows what it showed before.
IndeedCardNoted(emits) ==
    LET idx == card_i + 1
        first_walk == page_num = 0 /\ ~first_page_retried
        second_walk == page_num = 0 /\ first_page_retried
    IN  /\ first_page_emitted' =
              IF first_walk /\ emits THEN first_page_emitted \cup {idx} ELSE first_page_emitted
        /\ emitted_twice' =
              (emitted_twice \/ (second_walk /\ emits /\ idx \in first_page_emitted))
        /\ refetch_same' =
              IF second_walk THEN refetch_same /\ (emits <=> idx \in first_page_emitted)
              ELSE refetch_same

\* a card loop that an exception of one card ends
IndeedCardErrorEndsPage ==
    /\ ad = "indeed" /\ ad_pc = "cards"
    /\ card_i < n_cards
    /\ ~LimitReached(processed_count)
    /\ \E failed \in BOOLEAN, card \in IndeedCards :
          /\ last_card' = IF failed THEN "failed" ELSE "done"
          /\ card_i' = IF failed THEN n_cards ELSE card_i + 1
          /\ IndeedCardNoted(~failed /\ Truthy(card.title) /\ Truthy(card.company))
          /\ IF ~failed /\ Truthy(card.title) /\ Truthy(card.company)
               THEN /\ jobs' = Append(jobs, [title |-> card.title, company |-> card.company])
                    /\ processed_count' = processed_count + 1
               ELSE UNCHANGED <<jobs, processed_count>>
    /\ UNCHANGED <<ad, ad_pc, page_num, first_page_retried, page, previous_page_jobs,
                   current_page_jobs, n_cards, events, driver, ad_ret>>
    /\ UNCHANGED <<driver_ref, page_start, exit_path, fetches, first_page_cards>>
    /\ UNCHANGED ad_others

\* One pass of `for job in job_cards`: the fields are extracted, the
\* description page is read, and the record is appended if title and
\* company are there; an exception skips the card.
IndeedCard ==
    /\ ad = "indeed" /\ ad_pc = "cards"
    /\ card_i < n_cards
    /\ ~LimitReached(processed_count)
    /\ card_i' = card_i + 1
    /\ \E failed \in BOOLEAN, card \in IndeedCards :
          /\ last_card' = IF failed THEN "failed" ELSE "done"
          /\ IndeedCardNoted(~failed /\ Truthy(card.title) /\ Truthy(card.company))
          /\ IF ~failed /\ Truthy(card.title) /\ Truthy(card.company)
               THEN /\ jobs' = Append(jobs, [title |-> card.title, company |-> card.company])
                    /\ processed_count' = processed_count + 1
               ELSE UNCHANGED <<jobs, processed_count>>
    /\ UNCHANGED <<ad, ad_pc, page_num, first_page_retried, page, previous_page_jobs,
                   current_page_jobs, n_cards, events, driver, ad_ret>>
    /\ UNCHANGED <<driver_ref, page_start, exit_path, fetches, first_page_cards>>
    /\ UNCHANGED ad_others

\* the card loop is left: `if processed_count >= max_jobs: break`, else
\* `page_num += 1`
IndeedCardsEnd ==
    /\ ad = "indeed" /\ ad_pc = "cards"
    /\ card_i = n_cards \/ LimitReached(processed_count)
    /\ IF LimitReached(processed_count)
         THEN /\ ad_pc' = "done"
              /\ ad_ret' = Returns(jobs)
              /\ exit_path' = "limit"
              /\ UNCHANGED page_num
         ELSE /\ page_num' = page_num + 1
              /\ ad_pc' = "loop"
              /\ UNCHANGED <<ad_ret, exit_path>>
    /\ UNCHANGED <<ad, jobs, processed_count, first_page_retried, page, previous_page_jobs,
                   current_page_jobs, n_cards, card_i, events, driver>>
    /\ UNCHANGED <<driver_ref, last_card, page_start, fetches, indeed_hist>>
    /\ UNCHANGED ad_others

\* ---- LinkedIn ----

\* the scraper object and the query are built and scraper.run is entered
LinkedinStart ==
    /\ ad = "linkedin" /\ ad_pc = "start"
    /\ ad_pc' = "run"
    /\ UNCHANGED <<ad, jobs, processed_count, page_num, first_page_retried, page,
                   previous_page_jobs, current_page_jobs, n_cards, card_i, events, driver,
                   ad_ret>>
    /\ UNCHANGED ad_hist
    /\ UNCHANGED ad_others

\* The library emits a DATA event and on_data runs: below the limit the
\* record is appended, or building it raises and the except branch logs;
\* at the limit the callback does nothing.
LinkedinOnData ==
    /\ ad = "linkedin" /\ ad_pc = "run"
    /\ events < MaxEvents
    /\ events' = events + 1
    /\ \E failed \in BOOLEAN, data \in Listings :
          IF ~LimitReached(processed_count) /\ ~failed
            THEN /\ jobs' = Append(jobs, data)
                 /\ processed_count' = processed_count + 1
            ELSE UNCHANGED <<jobs, processed_count>>
    /\ UNCHANGED <<ad, ad_pc, page_num, first_page_retried, page, previous_page_jobs,
                   current_page_jobs, n_cards, card_i, driver, ad_ret>>
    /\ UNCHANGED ad_hist
    /\ UNCHANGED ad_others

\* scraper.run returns (`return jobs`) or raises (`return []`)
LinkedinRunEnds ==
    /\ ad = "linkedin" /\ ad_pc = "run"
    /\ \E raised \in BOOLEAN :
          ad_ret' = IF raised THEN Returns(<<>>) ELSE Returns(jobs)
    /\ ad_pc' = "done"
    /\ UNCHANGED <<ad, jobs, processed_count, page_num, first_page_retried, page,
                   previous_page_jobs, current_page_jobs, n_cards, card_i, events, driver>>
    /\ UNCHANGED ad_hist
    /\ UNCHANGED ad_others

\* ---- Rozee ----

\* scrape_rozee_sync builds the scraper, which installs _signal_handler for
\* SIGINT, resolves the city code and calls scrape_jobs, which starts the
\* browser with uc.Chrome(...) before its try statement: a failure to
\* start leaves scrape_jobs as an exception
RozeeStart ==
    /\ ad = "rozee" /\ ad_pc = "start"
    /\ \E started \in BOOLEAN :
          IF started
            THEN /\ driver' = "open"
                 /\ driver_ref' = TRUE
                 /\ ad_pc' = "loop"
                 /\ UNCHANGED <<ad_ret, exit_path>>
            ELSE /\ UNCHANGED <<driver, driver_ref>>
                 /\ ad_pc' = "done"
                 /\ ad_ret' = Raises
                 /\ exit_path' = "start_error"
    /\ UNCHANGED <<ad, jobs, processed_count, page_num, first_page_retried, page,
                   previous_page_jobs, current_page_jobs, n_cards, card_i, events>>
    /\ UNCHANGED <<last_card, page_start, fetches, indeed_hist>>
    /\ UNCHANGED ad_others

\* how loading a result page and waiting for its listings can end
RozeePageOutcomes == {"listed", "timeout", "error"}

\* a finally clause that leaves the driver as it is
RozeeFinallyKeepsDriver == UNCHANGED <<driver, driver_ref>>

\* the finally clause of scrape_jobs: `self.driver.quit()` and
\* `self.driver = None`
RozeeFinally ==
    /\ driver' = "quit"
    /\ driver_ref' = FALSE

\* One pass of `while len(jobs) < max_jobs` up to the card loop. The
\* listings are found; or the wait times out, which breaks the loop; or
\* driver.get or the wait raises another exception, which no except clause
\* of scrape_jobs catches. The finally clause quits the driver.
RozeeFetchPage ==
    /\ ad = "rozee" /\ ad_pc = "loop"
    /\ ~LimitReached(Len(jobs))
    /\ fetches' = fetches + 1
    /\ \E outcome \in RozeePageOutcomes, n \in 1..CardsPerPage :
          /\ IF outcome = "listed"
               THEN /\ n_cards' = n
                    /\ card_i' = 0
                    /\ current_page_jobs' = {}
                    /\ last_card' = "none"
                    /\ page_start' = Len(jobs)
                    /\ ad_pc' = "cards"
                    /\ UNCHANGED <<driver, driver_ref, ad_ret, exit_path>>
               ELSE /\ RozeeFinally
                    /\ ad_pc' = "done"
                    /\ ad_ret' = IF outcome = "timeout" THEN Returns(jobs) ELSE Raises
                    /\ exit_path' = IF outcome = "timeout" THEN "timeout" ELSE "fetch_error"
                    /\ UNCHANGED <<n_cards, card_i, current_page_jobs, last_card, page_start>>
    /\ UNCHANGED <<ad, jobs, processed_count, page_num, first_page_retried, page,
                   previous_page_jobs, events, indeed_hist>>
    /\ UNCHANGED ad_others

\* the while condition is false: the driver is quit and jobs returned
RozeeLoopExit ==
    /\ ad = "rozee" /\ ad_pc = "loop"
    /\ LimitReached(Len(jobs))
    /\ RozeeFinally
    /\ ad_pc' = "done"
    /\ ad_ret' = Returns(jobs)
    /\ exit_path' = "limit"
    /\ UNCHANGED <<ad, jobs, processed_count, page_num, first_page_retried, page,
                   previous_page_jobs, current_page_jobs, n_cards, card_i, events>>
    /\ UNCHANGED <<last_card, page_start, fetches, indeed_hist>>
    /\ UNCHANGED ad_others

\* One pass of `for job in job_listings`: an element that is missing skips
\* the card; else the identity is noted, and the record appended unless the
\* identity was on the previous page.
RozeeCard ==
    /\ ad = "rozee" /\ ad_pc = "cards"
    /\ card_i < n_cards
    /\ ~LimitReached(Len(jobs))
    /\ card_i' = card_i + 1
    /\ \E failed \in BOOLEAN, listing \in Listings :
          /\ last_card' = IF failed THEN "failed" ELSE "done"
          /\ IF failed
               THEN UNCHANGED <<jobs, current_page_jobs>>
               ELSE /\ current_page_jobs' = current_page_jobs \cup {listing}
                    /\ jobs' = IF listing \in previous_page_jobs THEN jobs
                               ELSE Append(jobs, listing)
    /\ UNCHANGED <<ad, ad_pc, processed_count, page_num, first_page_retried, page,
                   previous_page_jobs, n_cards, events, driver, ad_ret>>
    /\ UNCHANGED <<driver_ref, page_start, exit_path, fetches, indeed_hist>>
    /\ UNCHANGED ad_others

\* no page counts as a repeated page
NothingNewNever(p, current, previous) == FALSE

\* a test for a repeated page that starts one page late
NothingNewAfterSecond(p, current, previous) == p > 2 /\ current \subseteq previous

\* `page > 1 and current_page_jobs.issubset(previous_page_jobs)`
NothingNew(p, current, previous) == p > 1 /\ current \subseteq previous

\* the card loop is left: a page that shows nothing new ends the search,
\* else the next page is due
RozeeCardsEnd ==
    /\ ad = "rozee" /\ ad_pc = "cards"
    /\ card_i = n_cards \/ LimitReached(Len(jobs))
    /\ IF NothingNew(page, current_page_jobs, previous_page_jobs)
         THEN /\ RozeeFinally
              /\ ad_pc' = "done"
              /\ ad_ret' = Returns(jobs)
              /\ exit_path' = "dup"
              /\ UNCHANGED <<page, previous_page_jobs>>
         ELSE /\ previous_page_jobs' = current_page_jobs
              /\ page' = page + 1
              /\ ad_pc' = "loop"
              /\ UNCHANGED <<driver, driver_ref, ad_ret, exit_path>>
    /\ UNCHANGED <<ad, jobs, processed_count, page_num, first_page_retried,
                   current_page_jobs, n_cards, card_i, events>>
    /\ UNCHANGED <<last_card, page_start, fetches, indeed_hist>>
    /\ UNCHANGED ad_others

\* `except KeyboardInterrupt: return jobs`, then the finally clause
RozeeKeyboardInterrupt ==
    /\ ad = "rozee" /\ ad_pc \in {"loop", "cards"}
    /\ RozeeFinally
    /\ ad_pc' = "done"
    /\ ad_ret' = Returns(jobs)
    /\ exit_path' = "interrupt"
    /\ UNCHANGED <<ad, jobs, processed_count, page_num, first_page_retried, page,
                   previous_page_jobs, current_page_jobs, n_cards, card_i, events>>
    /\ UNCHANGED <<last_card, page_start, fetches, indeed_hist>>
    /\ UNCHANGED ad_others

\* RozeeScraper._signal_handler on SIGINT while scrape_jobs runs: the driver
\* is quit and sys.exit(0) raises SystemExit, which passes the finally
\* clause of scrape_jobs and ends the process
RozeeSignalHandler ==
    /\ ad = "rozee" /\ ad_pc \in {"loop", "cards"}
    /\ RozeeFinally
    /\ ad_pc' = "exited"
    /\ exit_path' = "sigint"
    /\ UNCHANGED <<ad, jobs, processed_count, page_num, first_page_retried, page,
                   previous_page_jobs, current_page_jobs, n_cards, card_i, events, ad_ret>>
    /\ UNCHANGED <<last_card, page_start, fetches, indeed_hist>>
    /\ UNCHANGED ad_others

AdNext ==
    \/ IndeedStart
    \/ IndeedFetchPage
    \/ IndeedLoopExit
    \/ IndeedCard
    \/ IndeedCardsEnd
    \/ LinkedinStart
    \/ LinkedinOnData
    \/ LinkedinRunEnds
    \/ RozeeStart
    \/ RozeeFetchPage
    \/ RozeeLoopExit
    \/ RozeeCard
    \/ RozeeCardsEnd
    \/ RozeeKeyboardInterrupt
    \/ RozeeSignalHandler

--------------------------------------------------------------------------
(* IndeedScraper.extract_experience (src/indeed_scraper.py)                *)
(* A string is a sequence of tokens. A token is one character (a digit,   *)
(* "+", "-", ":", a blank) or a whole lower-case word; re.IGNORECASE       *)
(* makes the case of the text irrelevant. The string is the concatenation  *)
(* of its tokens, so two blanks in a row are two tokens.                   *)

Digits == {"5"}
Blanks == {" "}
YearWords == {"year", "years"}

\* the tokens the enumerated arguments are made of
TextTokens == Digits \cup Blanks \cup {"+", "-", ":", "years", "of", "experience", "minimum", "in"}

\* pieces of a pattern: one token of a class; a greedy repetition of a
\* class, at least `min` and at most `max` times; a greedy optional group
One(class) == [t |-> "one", s |-> class]
Rep(class, min, max) == [t |-> "rep", s |-> class, min |-> min, max |-> max]
Opt(pieces) == [t |-> "opt", r |-> pieces]

\* a bound no repetition reaches
Unbounded == 1000

\* `\d+[\+]?\s*(?:-\s*\d+)?`, the number or range all four patterns share
NumberOrRange ==
    <<Rep(Digits, 1, Unbounded), Rep({"+"}, 0, 1), Rep(Blanks, 0, Unbounded),
      Opt(<<One({"-"}), Rep(Blanks, 0, Unbounded), Rep(Digits, 1, Unbounded)>>)>>

\* the list experience_patterns; each pattern as what precedes its group,
\* the group, and what follows it
experience_patterns ==
    << [pre  |-> <<>>,
        cap  |-> NumberOrRange,
        post |-> <<Rep(Blanks, 0, Unbounded), Opt(<<One(YearWords)>>),
                   Rep(Blanks, 0, Unbounded), Opt(<<One({"of"})>>),
                   Rep(Blanks, 0, Unbounded), One({"experience"})>>],
       [pre  |-> <<One({"experience"}), Rep(Blanks \cup {":"}, 1, Unbounded)>>,
        cap  |-> NumberOrRange \o <<Rep(Blanks, 0, Unbounded), One(YearWords)>>,
        post |-> <<>>],
       [pre  |-> <<>>,
        cap  |-> NumberOrRange,
        post |-> <<Rep(Blanks, 0, Unbounded), One(YearWords),
                   Rep(Blanks \cup {"-"}, 0, Unbounded), One({"experience"})>>],
       [pre  |-> <<One({"minimum"}), Rep(Blanks \cup {":"}, 1, Unbounded)>>,
        cap  |-> NumberOrRange,
        post |-> <<Rep(Blanks, 0, Unbounded), One(YearWords)>>] >>

RECURSIVE Flatten(_)
\* the concatenation of a sequence of sequences
Flatten(lists) ==
    IF lists = <<>> THEN <<>> ELSE Head(lists) \o Flatten(Tail(lists))

RECURSIVE RunLength(_, _, _)
\* how many tokens of the class follow position p of the text
RunLength(class, text, p) ==
    IF p < Len(text) /\ text[p + 1] \in class THEN 1 + RunLength(class, text, p + 1) ELSE 0

\* the smaller of two numbers
Min(a, b) == IF a < b THEN a ELSE b

RECURSIVE Ends(_, _, _)
\* Where a match of the pieces that starts after p tokens of the text can
\* end, in the order in which the backtracking matcher of `re` tries them:
\* a greedy repetition tries the longest run first, an optional group is
\* tried before it is left out.
Ends(pieces, text, p) ==
    IF pieces = <<>> THEN <<p>>
    ELSE LET piece == Head(pieces)
             first ==
                 CASE piece.t = "one" ->
                        IF p < Len(text) /\ text[p + 1] \in piece.s THEN <<p + 1>> ELSE <<>>
                   [] piece.t = "rep" ->
                        LET n == Min(RunLength(piece.s, text, p), piece.max)
                        IN  IF n < piece.min THEN <<>>
                            ELSE [k \in 1..(n - piece.min + 1) |-> p + n - (k - 1)]
                   [] piece.t = "opt" -> Ends(piece.r, text, p) \o <<p>>
         IN  Flatten([k \in 1..Len(first) |-> Ends(Tail(pieces), text, first[k])])

\* The groups of the matches of a pattern that start after p tokens, in the
\* order the matcher tries them.
GroupsAt(pattern, text, p) ==
    LET starts == Ends(pattern.pre, text, p)
    IN  Flatten([a \in 1..Len(starts) |->
            LET stops == Ends(pattern.cap, text, starts[a])
            IN  Flatten([b \in 1..Len(stops) |->
                    IF Ends(pattern.post, text, stops[b]) = <<>> THEN <<>>
                    ELSE << SubSeq(text, starts[a] + 1, stops[b]) >>])])

\* the positions of the text at which the pattern matches
MatchStarts(pattern, text) == {p \in 0..Len(text) : GroupsAt(pattern, text, p) # <<>>}

\* `pattern` has a match in the text: `if matches`
Matches(pattern, text) == MatchStarts(pattern, text) # {}

\* the least number of a non-empty set of numbers
Least(S) == CHOOSE x \in S : \A y \in S : x <= y

\* `matches[0]` of re.findall(pattern, text, re.IGNORECASE): the group of
\* the leftmost match
FirstMatch(pattern, text) == Head(GroupsAt(pattern, text, Least(MatchStarts(pattern, text))))

\* the string "Not specified"
NotSpecified == <<"Not specified">>

\* f"{matches[0]} years"
Rendered(group) == group \o <<" ", "years">>

RECURSIVE FirstRule(_, _)
\* the number of the first pattern, from k on, that has a match; 0 if none
FirstRule(k, text) ==
    IF k > Len(experience_patterns) THEN 0
    ELSE IF Matches(experience_patterns[k], text) THEN k
    ELSE FirstRule(k + 1, text)

\* extract_experience(text)
extract_experience(text) ==
    LET k == FirstRule(1, text)
    IN  IF k = 0 THEN NotSpecified
        ELSE Rendered(FirstMatch(experience_patterns[k], text))

\* the example texts of the documentation, token by token
ExampleBackend ==
    <<"5", "+", " ", "years", " ", "of", " ", "experience", " ", "in", " ", "backend">>
ExampleNone == <<"no", " ", "requirement", " ", "mentioned">>

\* the arguments the model calls extract_experience with
Texts ==
    UNION {[1..n -> TextTokens] : n \in 0..MaxText} \cup {ExampleBackend, ExampleNone}

\* no result yet
NotCalled == <<>>

ExIdle ==
    /\ ex_pc = "idle"
    /\ ex_text = <<>>
    /\ ex_result = NotCalled

ExInit ==
    /\ ex_pc = "call"
    /\ ex_text \in Texts
    /\ ex_result = NotCalled

\* the call of extract_experience
ExtractExperience ==
    /\ ex_pc = "call"
    /\ ex_result' = extract_experience(ex_text)
    /\ ex_pc' = "done"
    /\ UNCHANGED ex_text
    /\ UNCHANGED ex_others

ExNext == ExtractExperience

--------------------------------------------------------------------------
(* scrape_rozee_sync: the city code (src/rozee_scraper.py)                 *)
(* A string is a sequence of characters: small and capital letters and    *)
(* the blank.                                                              *)

SmallLetters == {"a", "b"}
CapitalLetters == {"A", "B"}
Chars == SmallLetters \cup CapitalLetters \cup {" "}

\* one character in lower and in upper case
LowerChar(ch) == CASE ch = "A" -> "a" [] ch = "B" -> "b" [] OTHER -> ch
UpperChar(ch) == CASE ch = "a" -> "A" [] ch = "b" -> "B" [] OTHER -> ch

\* str.lower()
Lower(str) == [i \in 1..Len(str) |-> LowerChar(str[i])]

\* a title case that leaves the string as it is
TitleAsGiven(str) == str

\* str.title(): a letter that begins the string or follows a character that
\* is no letter becomes a capital, every other letter a small one
Title(str) ==
    [i \in 1..Len(str) |->
        IF i = 1 \/ str[i - 1] \notin (SmallLetters \cup CapitalLetters)
          THEN UpperChar(str[i]) ELSE LowerChar(str[i])]

\* the codes cities.json gives: non-empty strings
Codes == {"1184", "1185"}

\* the city names cities.json may list
CityNames ==
    {<<"a", "b">>, <<"A", "b">>, <<"A", "B">>, <<"a", " ", "b">>, <<"A", " ", "B">>}

\* a name the table does not list
Unlisted == "<unlisted>"

\* the tables cities.json may hold: per name its code, or no entry
Tables == [CityNames -> Codes \cup {Unlisted}]

\* the dict of a cities.json that could not be loaded: `self.cities = {}`
EmptyTable == [name \in CityNames |-> Unlisted]

\* None
NoCode == "<None>"

\* cities.get(key)
Get(table, key) ==
    IF key \in DOMAIN table /\ table[key] # Unlisted THEN table[key] ELSE NoCode

\* `x or y` for codes: None and the empty string are false
Or(x, y) == IF x # NoCode /\ x # "" THEN x ELSE y

\* the fixed code of Karachi
DefaultCityCode == "1184"

\* the code scrape_rozee_sync hands to scrape_jobs
CityCode(table, loc) ==
    LET found == Or(Get(table, loc), Or(Get(table, Lower(loc)), Get(table, Title(loc))))
    IN  IF found = NoCode THEN DefaultCityCode ELSE found

\* the locations the model resolves
Locations == UNION {[1..n -> Chars] : n \in 0..MaxLoc}

\* what opening and parsing cities.json can give
CityFiles ==
    {[status |-> "ok", table |-> t] : t \in Tables}
    \cup {[status |-> st, table |-> EmptyTable] : st \in {"absent", "unparsable"}}

CIdle ==
    /\ c_pc = "idle"
    /\ cities_file = [status |-> "absent", table |-> EmptyTable]
    /\ cities = EmptyTable
    /\ location = <<>>
    /\ city_code = NoCode

\* scrape_rozee_sync(position, location, experience) is called
CInit ==
    /\ c_pc = "new"
    /\ cities_file \in CityFiles
    /\ cities = EmptyTable
    /\ location \in Locations
    /\ city_code = NoCode

\* RozeeScraper(): cities.json is loaded, or the except branch leaves an
\* empty dict
LoadCities ==
    /\ c_pc = "new"
    /\ cities' = IF cities_file.status = "ok" THEN cities_file.table ELSE EmptyTable
    /\ c_pc' = "built"
    /\ UNCHANGED <<cities_file, location, city_code>>
    /\ UNCHANGED c_others

\* the city code is looked up
ResolveCity ==
    /\ c_pc = "built"
    /\ city_code' = CityCode(cities, location)
    /\ c_pc' = "done"
    /\ UNCHANGED <<cities_file, cities, location>>
    /\ UNCHANGED c_others

CNext == LoadCities \/ ResolveCity

--------------------------------------------------------------------------
(* Requests that are in analyze_jobs_batch at the same time                *)
(* search_jobs is a coroutine of the one event loop of the server: while   *)
(* a request awaits its analyses, the handler of another request runs.     *)
(* Each request builds its own analyzer, and each call of                  *)
(* analyze_jobs_batch its own semaphore. One batch per request is          *)
(* modelled.                                                               *)

Requests == 1..MaxRequests

RqIdle ==
    /\ rq_pc = [r \in Requests |-> "idle"]
    /\ rq_n = [r \in Requests |-> 0]
    /\ rq_sem = [r \in Requests |-> SemaphoreSize]
    /\ rq_task = [r \in Requests |-> <<>>]

\* every request has reached `await analyzer.analyze_jobs_batch(...)` with
\* the jobs of one batch
RqInit ==
    /\ rq_pc = [r \in Requests |-> "start"]
    /\ rq_n \in [Requests -> 0..batch_size]
    /\ rq_sem = [r \in Requests |-> SemaphoreSize]
    /\ rq_task = [r \in Requests |-> [j \in 1..rq_n[r] |-> "idle"]]

\* the call of a request creates its semaphore and the tasks of its batch
RqBatchStart(r) ==
    /\ rq_pc[r] = "start"
    /\ rq_pc' = [rq_pc EXCEPT ![r] = "gather"]
    /\ rq_sem' = [rq_sem EXCEPT ![r] = SemaphoreSize]
    /\ rq_task' = [rq_task EXCEPT ![r] = [j \in 1..rq_n[r] |-> "waiting"]]
    /\ UNCHANGED rq_n
    /\ UNCHANGED rq_others

\* a task of the request enters `async with sem` of the semaphore of its
\* own call and sends its request to the endpoint
RqAcquire(r, j) ==
    /\ rq_pc[r] = "gather"
    /\ rq_task[r][j] = "waiting"
    /\ \A k \in 1..rq_n[r] : rq_task[r][k] = "waiting" => j <= k
    /\ CanAcquire(rq_sem[r])
    /\ rq_sem' = [rq_sem EXCEPT ![r] = @ - 1]
    /\ rq_task' = [rq_task EXCEPT ![r][j] = "running"]
    /\ UNCHANGED <<rq_pc, rq_n>>
    /\ UNCHANGED rq_others

\* analyze_job returns to a task, which leaves `async with sem`
RqFinish(r, j) ==
    /\ rq_pc[r] = "gather"
    /\ rq_task[r][j] = "running"
    /\ rq_sem' = [rq_sem EXCEPT ![r] = @ + 1]
    /\ rq_task' = [rq_task EXCEPT ![r][j] = "done"]
    /\ UNCHANGED <<rq_pc, rq_n>>
    /\ UNCHANGED rq_others

\* asyncio.gather of the request returns
RqGatherDone(r) ==
    /\ rq_pc[r] = "gather"
    /\ \A j \in 1..rq_n[r] : rq_task[r][j] = "done"
    /\ rq_pc' = [rq_pc EXCEPT ![r] = "done"]
    /\ UNCHANGED <<rq_n, rq_sem, rq_task>>
    /\ UNCHANGED rq_others

RqNext ==
    \/ \E r \in Requests : RqBatchStart(r)
    \/ \E r \in Requests : \E j \in 1..rq_n[r] : RqAcquire(r, j)
    \/ \E r \in Requests : \E j \in 1..rq_n[r] : RqFinish(r, j)
    \/ \E r \in Requests : RqGatherDone(r)

--------------------------------------------------------------------------
(* Specifications                                                          *)

InitAnalyzeJob == AJInit /\ BIdle /\ SIdle /\ AdIdle /\ ExIdle /\ CIdle /\ RqIdle

SpecAnalyzeJob == InitAnalyzeJob /\ [][AJNext]_vars

AJIdle ==
    /\ aj_pc = "idle"
    /\ attempt = 0
    /\ retry_delay = InitialRetryDelay
    /\ requests = 0
    /\ waits = <<>>
    /\ parsedResp = NoResp
    /\ hist = <<>>
    /\ aj_result = NoResult

InitBatch == BInit /\ AJIdle /\ SIdle /\ AdIdle /\ ExIdle /\ CIdle /\ RqIdle

SpecBatch == InitBatch /\ [][BNext]_vars

SpecBatchStop == InitBatch /\ [][BNextStop]_vars

InitSearch == SInit /\ AJIdle /\ BIdle /\ AdIdle /\ ExIdle /\ CIdle /\ RqIdle

SpecSearch == InitSearch /\ [][SNext]_vars

InitAdapters == AdInit /\ AJIdle /\ BIdle /\ SIdle /\ ExIdle /\ CIdle /\ RqIdle

SpecAdapters == InitAdapters /\ [][AdNext]_vars

\* the steps of the Indeed adapter
IndeedNext ==
    \/ IndeedStart
    \/ IndeedFetchPage
    \/ IndeedLoopExit
    \/ IndeedCard
    \/ IndeedCardsEnd

InitIndeed == InitAdapters /\ ad = "indeed"

\* The Indeed adapter with progress: every await of scrape_jobs returns or
\* raises in the end, so a call that can take a step takes one.
SpecIndeedFair == InitIndeed /\ [][IndeedNext]_vars /\ WF_vars(IndeedNext)

InitExtract == ExInit /\ AJIdle /\ BIdle /\ SIdle /\ AdIdle /\ CIdle /\ RqIdle

SpecExtract == InitExtract /\ [][ExNext]_vars

InitCity == CInit /\ AJIdle /\ BIdle /\ SIdle /\ AdIdle /\ ExIdle /\ RqIdle

SpecCity == InitCity /\ [][CNext]_vars

InitRequests == RqInit /\ AJIdle /\ BIdle /\ SIdle /\ AdIdle /\ ExIdle /\ CIdle

SpecRequests == InitRequests /\ [][RqNext]_vars

--------------------------------------------------------------------------
(* Claims about analyze_job                                                *)

Range(f) == {f[i] : i \in DOMAIN f}

Pow2(n) == IF n <= 0 THEN 1 ELSE IF n = 1 THEN 2 ELSE IF n = 2 THEN 4 ELSE 8

Returned == aj_pc = "done"

NoAttemptSucceeded == \A k \in 1..Len(hist) : hist[k] # "ok"

\* the object embedded in the response the result was parsed from
ParsedObject == MatchGroup(parsedResp.content)

\* C3: analyze_job sends at most 3 requests and always terminates: every
\* step sends exactly one request, never more than 3 are sent, and as long
\* as it has not returned a step is possible.
C3_AtMostThreeRequestsAndTerminates ==
    /\ [](requests <= 3 /\ (Returned \/ ENABLED AJNext))
    /\ [][requests' = requests + 1 /\ requests' <= 3]_vars

\* three attempts of three different failing kinds, then the return
C3_Witness ==
    /\ Returned
    /\ requests = 3
    /\ hist = <<"timeout", "non200", "badjson">>

C5_FirstSuccessIsReturned ==
    \A k \in 1..Len(hist) :
        hist[k] = "ok" =>
            /\ k = Len(hist)
            /\ requests = k
            /\ Returned
            /\ parsedResp.kind = "http" /\ parsedResp.status = 200
            /\ ("s80" \in Range(ParsedObject) /\ "s150" \notin Range(ParsedObject))
                   => aj_result.score = 80
            /\ ("s150" \in Range(ParsedObject) /\ "s80" \notin Range(ParsedObject))
                   => aj_result.score = 150
            /\ ("kpy" \in Range(ParsedObject) /\ "knull" \notin Range(ParsedObject))
                   => aj_result.skills = <<"py">>

\* two timeouts, then a success whose score and skills are returned
C5_Witness ==
    /\ hist = <<"timeout", "timeout", "ok">>
    /\ parsedResp.content = <<"x", "{", "s80", "kpy", "}">> \/ parsedResp.content = <<"{", "s80", "kpy", "}">>
    /\ aj_result = [score |-> 80, skills |-> <<"py">>]

\* C6: the i-th wait is 5 * 2^(i-1) seconds (5, then 10); a wait is taken
\* after a timeout of attempt 1 or 2 and never after a timeout of attempt 3.
C6_BackoffDoubles ==
    /\ Len(waits) = Cardinality({k \in 1..Len(hist) : hist[k] = "timeout" /\ k < 3})
    /\ \A i \in 1..Len(waits) : waits[i] = 5 * Pow2(i - 1)

C6_Witness ==
    /\ hist = <<"timeout", "timeout", "timeout">>
    /\ waits = <<5, 10>>
    /\ Returned

C8_ScoreInRange == Returned => (aj_result.score >= 0 /\ aj_result.score <= 100)

\* the number of read timeouts among the attempts so far
TimeoutsSoFar == Cardinality({k \in 1..Len(hist) : hist[k] = "timeout"})

\* the step is an attempt that fails otherwise than by a read timeout
FailsWithoutTimeout ==
    /\ Len(hist') = Len(hist) + 1
    /\ hist'[Len(hist')] \notin {"timeout", "ok"}

\* the step is an attempt that ends in a read timeout and is not the last
TimeoutBeforeLast ==
    /\ Len(hist') = Len(hist) + 1
    /\ hist'[Len(hist')] = "timeout"
    /\ attempt < max_retries - 1

\* C25: an attempt that fails without a read timeout uses up one attempt,
\* takes no wait and leaves the delay as it is; a timeout that is not the
\* last attempt waits 5 * 2^t seconds, t being the number of timeouts before
\* it, whatever other failures came in between.
C25_OtherFailuresLeaveBackoff ==
    /\ [][FailsWithoutTimeout =>
            /\ attempt' = attempt + 1
            /\ requests' = requests + 1
            /\ waits' = waits
            /\ retry_delay' = retry_delay]_vars
    /\ [][TimeoutBeforeLast =>
            waits' = Append(waits, InitialRetryDelay * Pow2(TimeoutsSoFar))]_vars

\* a failure that is no timeout, then a timeout that waits 5 seconds, then
\* an exception: one wait in all
C25_Witness ==
    /\ Returned
    /\ hist = <<"nojson", "timeout", "error">>
    /\ waits = <<5>>
    /\ retry_delay = 10
    /\ attempt = 3

--------------------------------------------------------------------------
(* Claims about analyze_jobs_batch                                         *)

InFlight == Cardinality({j \in 1..b_n : task[j] = "running"})

\* C9: at every moment at most 3 analyze_job calls are in flight.
C9_AtMostThreeInFlight == InFlight <= 3

\* the cap binds: three calls in flight, one finished, one still waiting
C9_Witness ==
    /\ InFlight = 3
    /\ \E j \in 1..b_n : task[j] = "waiting"
    /\ \E j \in 1..b_n : task[j] = "done"

EntriesOf(j) == {k \in 1..Len(analyzed_jobs) : analyzed_jobs[k].job = j}

\* C10: when the stop flag was never set, the returned list has exactly one
\* entry per input job.
C10_OneEntryPerJob ==
    (b_pc = "done" /\ running) =>
        /\ Len(analyzed_jobs) = b_n
        /\ \A j \in 1..b_n : Cardinality(EntriesOf(j)) = 1

\* seven jobs, of which one failed, one raised in its task and one succeeded
C10_Witness ==
    /\ b_pc = "done"
    /\ running
    /\ b_n = 7
    /\ Len(analyzed_jobs) = 7
    /\ \E k \in 1..7 : analyzed_jobs[k].error
    /\ \E k \in 1..7 : analyzed_jobs[k].relevance_score = 80
    /\ \E k \in 1..7 : analyzed_jobs[k].relevance_score = 0 /\ ~analyzed_jobs[k].error

\* C12: a job whose analysis failed is in the output of analyze_jobs_batch
\* as an entry with score 0, no matched skills and an error marker.
C12_FailedJobHasErrorMarker ==
    (b_pc = "done") =>
        \A j \in 1..b_n :
            job_returns[j] = FailedResult =>
                \E k \in 1..Len(analyzed_jobs) :
                    /\ analyzed_jobs[k].job = j
                    /\ analyzed_jobs[k].relevance_score = 0
                    /\ analyzed_jobs[k].matched_skills = <<>>
                    /\ analyzed_jobs[k].error

\* the stop flag was cleared while the tasks of a batch were gathered, and
\* analyze_jobs_batch has returned
StoppedInBatch == b_pc = "done" /\ stop_at.pc = "gather"

\* the jobs of the output, as a set
OutputJobs == {analyzed_jobs[k].job : k \in 1..Len(analyzed_jobs)}

\* the output is in descending order of score, equal scores in input order
OutputSorted ==
    \A p, q \in 1..Len(analyzed_jobs) :
        p < q => \/ analyzed_jobs[p].relevance_score > analyzed_jobs[q].relevance_score
                 \/ /\ analyzed_jobs[p].relevance_score = analyzed_jobs[q].relevance_score
                    /\ analyzed_jobs[p].job < analyzed_jobs[q].job

\* every job of the batch in which the flag was cleared is scored in the
\* output, no job of a later batch was analyzed or is in the output, and
\* the output is the sorted scoring of the first `len` input jobs
StopGivesPrefix(len) ==
    /\ \A j \in BatchOf(stop_at.i, b_n) : job_returns[j] # NoResult /\ j \in OutputJobs
    /\ \A j \in 1..b_n : j > stop_at.i + batch_size =>
            job_returns[j] = NoResult /\ j \notin OutputJobs
    /\ Len(analyzed_jobs) = len
    /\ OutputJobs = 1..len
    /\ OutputSorted

CeilDiv(n, d) == (n + d - 1) \div d

\* the jobs of the batches before the one that starts at i
EarlierJobs(i) == {j \in 1..b_n : j <= i}

\* C26: analyze_jobs_batch works through its input in consecutive batches
\* of 5. Only jobs of the current batch are being analysed, and only while
\* the batch is gathered; by then every job of the earlier batches has been
\* analysed and one pause of 5 seconds per earlier batch has been taken. No
\* pause follows the last batch: n >= 1 jobs take ceil(n/5) - 1 pauses, and
\* no jobs take none.
C26_BatchesInTurnWithPauses ==
    /\ b_pc \in {"gather", "pause", "done"} =>
          /\ b_i % batch_size = 0
          /\ \A j \in 1..b_n :
                task[j] # "idle" => (b_pc = "gather" /\ j \in BatchOf(b_i, b_n))
          /\ b_n > 0 => \A j \in EarlierJobs(b_i) : job_returns[j] # NoResult
          /\ \A k \in 1..Len(pauses) : pauses[k] = 5
          /\ Len(pauses) = (b_i \div batch_size) + (IF b_pc = "pause" THEN 1 ELSE 0)
    /\ b_pc = "done" =>
          /\ b_n >= 1 => Len(pauses) = CeilDiv(b_n, 5) - 1
          /\ b_n = 0 => Len(pauses) = 0

\* seven jobs: the second batch is being analysed after one pause, all five
\* jobs of the first batch have returned
C26_Witness ==
    /\ b_n = 7
    /\ b_pc = "gather"
    /\ b_i = 5
    /\ pauses = <<5>>
    /\ task[6] = "running"
    /\ \A j \in 1..5 : job_returns[j] # NoResult /\ task[j] = "idle"

--------------------------------------------------------------------------
(* Claims about search_jobs                                                *)

\* C1: when test_connection returns false, no adapter is invoked and
\* analyze_jobs_batch is never called.
C1_GateFailureRunsNothing ==
    (s_conn = "failed") => (invoked = <<>> /\ all_jobs = <<>> /\ batch_calls = 0)

\* the gate failed for a request that asked for all three sources, and the
\* request has been answered
C1_Witness ==
    /\ s_conn = "failed"
    /\ Range(sources) = AdapterNames
    /\ s_pc = "done"
    /\ invoked = <<>>

\* C2: when the pre-flight check fails, the caller of search_jobs gets
\* status 503.
C2_GateFailureIs503 ==
    (s_pc = "done" /\ s_conn = "failed") => s_status = 503

\* the place of a response object's job in the merged list
InputPos(r) == CHOOSE k \in 1..Len(all_jobs) : all_jobs[k].source = r.source /\ all_jobs[k].n = r.n

\* C11: the list analyze_jobs_batch returns, and the response list search_jobs
\* builds from it, are in descending order of relevance_score, and entries
\* with equal scores are in the order of the merged input list.
C11_SortedDescendingStable ==
    (s_pc = "done") =>
        /\ \A p, q \in 1..Len(s_analyzed) :
              p < q => \/ s_analyzed[p].relevance_score > s_analyzed[q].relevance_score
                       \/ /\ s_analyzed[p].relevance_score = s_analyzed[q].relevance_score
                          /\ s_analyzed[p].job < s_analyzed[q].job
        /\ \A p, q \in 1..Len(relevant_jobs) :
              p < q => \/ relevant_jobs[p].relevance_score > relevant_jobs[q].relevance_score
                       \/ /\ relevant_jobs[p].relevance_score = relevant_jobs[q].relevance_score
                          /\ InputPos(relevant_jobs[p]) < InputPos(relevant_jobs[q])

\* three jobs were merged, the first scored 0 and the two others 80: the
\* two are in front, in input order, in both lists
C11_Witness ==
    /\ s_pc = "done"
    /\ Len(all_jobs) = 3
    /\ Len(s_analyzed) = 3
    /\ s_analyzed[1].job = 2 /\ s_analyzed[1].relevance_score = 80
    /\ s_analyzed[2].job = 3 /\ s_analyzed[2].relevance_score = 80
    /\ s_analyzed[3].job = 1 /\ s_analyzed[3].relevance_score = 0
    /\ Len(relevant_jobs) = 3
    /\ relevant_jobs[1].source = "linkedin"
    /\ relevant_jobs[3].source = "indeed"

\* C14: test_connection returns true exactly when the probe request
\* completes with status 200; for every other status, a timeout or another
\* exception it returns false, and it never raises.
C14_TrueExactlyOn200 ==
    (probe # NoResp) =>
        \/ s_conn = "ok" /\ probe.kind = "http" /\ probe.status = 200
        \/ s_conn = "failed" /\ ~(probe.kind = "http" /\ probe.status = 200)

\* the probe was answered with a status other than 200 and test_connection
\* returned false
C14_Witness ==
    /\ probe.kind = "http"
    /\ probe.status = 500
    /\ s_conn = "failed"

\* the order in which the claims expect the adapters
FixedOrder == <<"indeed", "linkedin", "rozee">>

FixedIdx(name) == CHOOSE m \in 1..3 : FixedOrder[m] = name

\* the adapters have all been passed: the analysis is next, or the request
\* has been answered after it
PastAdapters == s_conn = "ok" /\ s_pc \in {"analyze", "done"}

\* the records the scraper of the p-th invoked adapter returned
RecordsOf(p) == IF scraped[p].raises THEN <<>> ELSE scraped[p].records

\* the places of the merged list that hold a record of this source
PlacesOf(name) == {k \in 1..Len(all_jobs) : all_jobs[k].source = name}

\* C15: the requested adapters are invoked in the order indeed, linkedin,
\* rozee whatever the order of request.sources is, one after the other, and
\* the list given to analyze_jobs_batch is the indeed records, then the
\* linkedin records, then the rozee records, each tagged with its source.
C15_FixedAdapterOrder ==
    /\ Len(scraped) = Len(invoked)
    /\ \A p, q \in 1..Len(invoked) : p < q => FixedIdx(invoked[p]) < FixedIdx(invoked[q])
    /\ \A p \in 1..Len(invoked) : Requested(invoked[p], sources)
    /\ PastAdapters => Range(invoked) = Range(sources)
    /\ \A p \in 1..Len(invoked) : Cardinality(PlacesOf(invoked[p])) = Len(RecordsOf(p))
    /\ \A k \in 1..Len(all_jobs) :
          \E p \in 1..Len(invoked) :
              /\ invoked[p] = all_jobs[k].source
              /\ all_jobs[k].n \in 1..Len(RecordsOf(p))
              /\ all_jobs[k].valid = RecordsOf(p)[all_jobs[k].n]
    /\ \A j, k \in 1..Len(all_jobs) :
          j < k => \/ FixedIdx(all_jobs[j].source) < FixedIdx(all_jobs[k].source)
                   \/ /\ all_jobs[j].source = all_jobs[k].source
                      /\ all_jobs[j].n < all_jobs[k].n
    /\ (s_pc = "done" /\ s_conn = "ok") =>
          {s_analyzed[k].job : k \in 1..Len(s_analyzed)} = 1..Len(all_jobs)

\* the request named rozee, linkedin, indeed in this order; the adapters ran
\* as indeed, linkedin, rozee and each gave a record
C15_Witness ==
    /\ sources = <<"rozee", "linkedin", "indeed">>
    /\ s_pc = "done"
    /\ invoked = <<"indeed", "linkedin", "rozee">>
    /\ Len(all_jobs) = 3
    /\ all_jobs[1].source = "indeed"
    /\ all_jobs[2].source = "linkedin"
    /\ all_jobs[3].source = "rozee"
    /\ Len(s_analyzed) = 3

\* the scraper of the p-th invoked adapter raised or returned nothing
AdapterFailed(p) == scraped[p].raises \/ scraped[p].records = <<>>

\* C16: an adapter that raises or returns nothing contributes no job; every
\* other requested source is still invoked and its jobs reach the analyzer;
\* the request is not aborted.
C16_AdapterFailureIsContained ==
    (s_pc = "done" /\ s_conn = "ok") =>
        /\ Range(invoked) = Range(sources)
        /\ batch_calls = 1
        /\ \A p \in 1..Len(invoked) :
              IF AdapterFailed(p)
                THEN PlacesOf(invoked[p]) = {}
                ELSE /\ Cardinality(PlacesOf(invoked[p])) = Len(scraped[p].records)
                     /\ \A k \in PlacesOf(invoked[p]) :
                            \E e \in 1..Len(s_analyzed) : s_analyzed[e].job = k
        /\ saved = "yes" => s_status = 200

\* indeed raised, linkedin returned nothing, rozee gave a record: the rozee
\* record was analyzed and the request answered with 200
C16_Witness ==
    /\ s_pc = "done"
    /\ invoked = <<"indeed", "linkedin", "rozee">>
    /\ scraped[1].raises
    /\ ~scraped[2].raises /\ scraped[2].records = <<>>
    /\ Len(all_jobs) = 1
    /\ all_jobs[1].source = "rozee"
    /\ Len(s_analyzed) = 1
    /\ s_status = 200

\* the places of the scored list whose record is fit for JobResponse
ValidPlaces == {k \in 1..Len(s_analyzed) : all_jobs[s_analyzed[k].job].valid}

\* C17: a scored record that lacks a required field is skipped; all other
\* scored records are in the response, in the order of the scored list; a
\* bad record does not turn the request into an error.
C17_BadRecordIsSkipped ==
    (s_pc = "done" /\ s_conn = "ok") =>
        /\ Len(relevant_jobs) = Cardinality(ValidPlaces)
        /\ \A p \in 1..Len(relevant_jobs) :
              LET k == AscSeq(ValidPlaces)[p]
              IN  /\ InputPos(relevant_jobs[p]) = s_analyzed[k].job
                  /\ relevant_jobs[p].relevance_score = s_analyzed[k].relevance_score
                  /\ relevant_jobs[p].matched_skills = s_analyzed[k].matched_skills
        /\ saved = "yes" => s_status = 200

\* three scored records, the second of the scored list lacks a field: the
\* response has the first and the third, and the status is 200
C17_Witness ==
    /\ s_pc = "done"
    /\ Len(s_analyzed) = 3
    /\ ValidPlaces = {1, 3}
    /\ Len(relevant_jobs) = 2
    /\ InputPos(relevant_jobs[1]) = s_analyzed[1].job
    /\ InputPos(relevant_jobs[2]) = s_analyzed[3].job
    /\ s_status = 200

\* C27: an interrupt signal delivered while analyze_jobs_batch runs for a
\* request clears the stop flag of the analyzer of that request, whatever
\* sources were requested.
C27_InterruptClearsFlag ==
    s_pc = "exited" => ~s_running

--------------------------------------------------------------------------
(* Claims about the adapters                                               *)

\* C18: every record an adapter has emitted has a non-empty title and a
\* non-empty company.
C18_EmittedHaveTitleAndCompany ==
    \A k \in 1..Len(jobs) : Truthy(jobs[k].title) /\ Truthy(jobs[k].company)

\* a step that takes up a further card or listing
CardStep == IndeedCard \/ RozeeCard \/ (LinkedinOnData /\ jobs' # jobs)

\* a step that asks for a further result page
FetchStep == IndeedFetchPage \/ RozeeFetchPage

\* C19: an adapter never has more than max_jobs (10) records, and once it
\* has that many it takes up no further card and asks for no further page.
C19_AtMostMaxJobs ==
    /\ [](Len(jobs) <= max_jobs)
    /\ [][Len(jobs) >= max_jobs => ~(CardStep \/ FetchStep)]_vars

\* the Indeed adapter has returned ten records after going back to the
\* first page once
C19_Witness ==
    /\ ad = "indeed"
    /\ ad_pc = "done"
    /\ first_page_retried
    /\ Len(jobs) = max_jobs
    /\ ad_ret = Returns(jobs)

\* C20: an adapter entry point never raises to its caller.
C20_EntryPointNeverRaises ==
    ad_ret.kind # "raise"

\* the ways scrape_jobs of the Rozee adapter is left with a driver created
RozeeExitPaths == {"limit", "dup", "timeout", "fetch_error", "interrupt", "sigint"}

\* C21: in the Rozee adapter, once scrape_jobs has created the driver, the
\* driver is quit and self.driver cleared when control has left scrape_jobs,
\* whichever way it left (loop end, page timeout, exception of a page fetch,
\* keyboard interrupt), and a SIGINT that comes while the driver is open
\* quits it before the process exits; while scrape_jobs runs, self.driver
\* refers to the open driver.
C21_RozeeDriverIsQuit ==
    ad = "rozee" =>
        /\ driver_ref <=> driver = "open"
        /\ ad_pc \in {"loop", "cards"} => driver = "open"
        /\ (ad_pc \in {"done", "exited"} /\ exit_path # "start_error") =>
              /\ exit_path \in RozeeExitPaths
              /\ driver = "quit"
              /\ ~driver_ref

\* a page fetch raised after records were collected: the driver is quit
C21_Witness ==
    /\ ad = "rozee"
    /\ ad_pc = "done"
    /\ exit_path = "fetch_error"
    /\ Len(jobs) > 0
    /\ driver = "quit"
    /\ ~driver_ref

\* C22: in the Indeed adapter the browser that scrape_jobs started is not
\* open any more when scrape_jobs has returned, whichever way it returned
\* (max results, page cap, page-fetch exception, outer error).
C22_IndeedBrowserTornDown ==
    (ad = "indeed" /\ ad_pc = "done") => driver # "open"

\* the card loop of a Rozee result page after the first has been walked to
\* its end and the identities read on it are those read on the page before
RepeatedPageWalked ==
    /\ ad = "rozee" /\ ad_pc = "cards"
    /\ page > 1
    /\ card_i = n_cards
    /\ current_page_jobs = previous_page_jobs

\* C23: in the Rozee adapter, while the identities read on a page are all
\* among those of the page before, no record of the page has been appended;
\* and when page k+1 has been walked and has the identity set of page k, the
\* next step ends the pagination and appends nothing.
C23_RepeatedPageEndsPagination ==
    /\ []((ad = "rozee" /\ ad_pc = "cards" /\ current_page_jobs \subseteq previous_page_jobs)
              => Len(jobs) = page_start)
    /\ [][RepeatedPageWalked => (ad_pc' \in {"done", "exited"} /\ jobs' = jobs)]_vars

\* the second page showed the two listings of the first: the search ended
\* there with the two records of the first page
C23_Witness ==
    /\ ad = "rozee"
    /\ ad_pc = "done"
    /\ exit_path = "dup"
    /\ page = 2
    /\ Cardinality(current_page_jobs) = 2
    /\ current_page_jobs = previous_page_jobs
    /\ Len(jobs) = 2
    /\ page_start = 2

\* C28: in the Indeed and the Rozee adapter, when loading a result page
\* raises an exception after records were collected from earlier pages,
\* scrape_jobs has stopped paginating and returns exactly the records
\* collected so far.
C28_PageErrorReturnsCollected ==
    (ad \in {"indeed", "rozee"} /\ exit_path = "fetch_error" /\ Len(jobs) > 0) =>
        /\ ad_pc = "done"
        /\ ad_ret = Returns(jobs)

\* a step of the card loop of the Indeed or the Rozee adapter in which the
\* extraction of the card raises
CardFails == (IndeedCard \/ RozeeCard) /\ last_card' = "failed"

\* the card loop of the page is over
CardsWalked == card_i = n_cards \/ LimitReached(Len(jobs))

C30_RozeeRecordsUnique ==
    ad = "rozee" =>
        \A i, j \in 1..Len(jobs) : i # j => jobs[i] # jobs[j]

\* C31: the Indeed adapter goes back to page one at most once in a call of
\* scrape_jobs: the page number goes down only in the step that sets
\* first_page_retried, the flag is never cleared, and once it is set a
\* second page with cards is walked like any other page.
C31_GoesBackAtMostOnce ==
    /\ [][(ad = "indeed" /\ page_num' < page_num) =>
            /\ page_num = 1 /\ page_num' = 0
            /\ ~first_page_retried /\ first_page_retried']_vars
    /\ [][first_page_retried => first_page_retried']_vars
    /\ [][(IndeedFetchPage /\ first_page_retried /\ page_num = 1) =>
            page_num' = 1]_vars

\* the fourth fetch: the second page is visited again after the return to
\* page one, has cards again, and its cards are walked
C31_Witness ==
    /\ ad = "indeed"
    /\ first_page_retried
    /\ page_num = 1
    /\ ad_pc = "cards"
    /\ n_cards > 0
    /\ fetches = 4

\* C32: the Indeed adapter goes back to page one only when the first fetch
\* of page one gave no job cards (and the second page then gave some).
C32_GoesBackOnlyAfterEmptyFirstPage ==
    (ad = "indeed" /\ first_page_retried) => first_page_cards = 0

\* C33: when the site serves the same pages at every fetch and all cards
\* are distinct, the Indeed adapter appends the record of no card twice.
C33_NoRecordTwice ==
    (ad = "indeed" /\ refetch_same) => ~emitted_twice

\* C34: IndeedScraper.scrape_jobs always terminates; it asks for the result
\* pages 0, 1 and 2 only, and for at most 5 result pages in all.
C34_IndeedTerminates ==
    /\ [](ad = "indeed" => (fetches <= 5 /\ page_num \in 0..IndeedPageCap))
    /\ [][IndeedFetchPage => page_num \in {0, 1, 2}]_vars
    /\ (ad = "indeed") ~> (ad = "indeed" /\ ad_pc = "done")

\* five fetches: pages one and two, page one again, page two again, and
\* page three, after which the page cap ends the search
C34_Witness ==
    /\ ad = "indeed"
    /\ ad_pc = "done"
    /\ exit_path = "cap"
    /\ fetches = 5
    /\ page_num = 3
    /\ first_page_retried

\* the steps a page takes at most: its fetch, its cards, its end
StepsPerPage == CardsPerPage + 3

\* How far a call of RozeeScraper.scrape_jobs has come: the pages asked for
\* count most, then the place within the page.
RozeeProgress ==
    fetches * StepsPerPage +
        (CASE ad_pc = "start" -> 0
           [] ad_pc = "cards" -> card_i
           [] ad_pc = "loop" -> CardsPerPage + 1
           [] OTHER -> CardsPerPage + 2)

--------------------------------------------------------------------------
(* Claims about extract_experience                                         *)

\* C24: extract_experience("5+ years of experience in backend") returns
\* exactly "5+ years", and extract_experience("no requirement mentioned")
\* returns exactly "Not specified".
C24_DocumentedExamples ==
    ex_pc = "done" =>
        /\ ex_text = ExampleBackend => ex_result = <<"5", "+", " ", "years">>
        /\ ex_text = ExampleNone => ex_result = NotSpecified

\* the form "<N[+][-M]> years": a number, "+" if any, "-" and a second
\* number if any, one blank, and the word years once
RenderedForm ==
    <<Rep(Digits, 1, Unbounded), Rep({"+"}, 0, 1),
      Opt(<<One({"-"}), Rep(Digits, 1, Unbounded)>>), One(Blanks), One({"years"})>>

\* the string has the form
HasRenderedForm(str) ==
    \E k \in 1..Len(Ends(RenderedForm, str, 0)) : Ends(RenderedForm, str, 0)[k] = Len(str)

\* C37: extract_experience returns "Not specified" exactly when none of its
\* patterns matches the text, and otherwise a string of the form
\* "<N[+][-M]> years", with the word years once.
C37_RenderedOnce ==
    ex_pc = "done" =>
        /\ ex_result = NotSpecified
              <=> \A k \in 1..Len(experience_patterns) : ~Matches(experience_patterns[k], ex_text)
        /\ ex_result # NotSpecified => HasRenderedForm(ex_result)

--------------------------------------------------------------------------
(* Claims about the city code                                              *)

\* the table has an entry for the name
Listed(name) == name \in DOMAIN cities /\ cities[name] # Unlisted

\* C36: scrape_rozee_sync takes the table entry of the location as given if
\* there is one, else the entry of its lower-case form, else the entry of
\* its title-case form, else the code "1184"; when cities.json is absent or
\* cannot be parsed every location gets "1184". For the location "aB" the
\* lower-case form is "ab" and the title-case form is "Ab", for "a b" the
\* title-case form is "A B".
C36_CityCodeResolution ==
    c_pc = "done" =>
        /\ city_code =
              IF Listed(location) THEN cities[location]
              ELSE IF Listed(Lower(location)) THEN cities[Lower(location)]
              ELSE IF Listed(Title(location)) THEN cities[Title(location)]
              ELSE "1184"
        /\ cities_file.status # "ok" => city_code = "1184"
        /\ (location = <<"a", "B">> /\ Listed(<<"a", "b">>)) => city_code = cities[<<"a", "b">>]
        /\ (location = <<"a", "B">> /\ ~Listed(<<"a", "b">>) /\ Listed(<<"A", "b">>))
              => city_code = cities[<<"A", "b">>]
        /\ (location = <<"a", " ", "b">> /\ ~Listed(location) /\ Listed(<<"A", " ", "B">>))
              => city_code = cities[<<"A", " ", "B">>]

\* the location "a b" is not in the table as given (and is its own
\* lower-case form), its title-case form "A B" is, with a code that is not
\* the default
C36_Witness ==
    /\ c_pc = "done"
    /\ location = <<"a", " ", "b">>
    /\ ~Listed(location)
    /\ Listed(<<"A", " ", "B">>)
    /\ city_code = "1185"

--------------------------------------------------------------------------
(* Claims about concurrent requests                                        *)

\* the inference calls in flight at the endpoint, over all requests
CallsInFlight ==
    {<<r, j>> \in Requests \X (1..batch_size) : j <= rq_n[r] /\ rq_task[r][j] = "running"}

\* C38: never more than 3 inference calls are in flight at the endpoint,
\* also when two requests are in analyze_jobs_batch at the same time.
C38_AtMostThreeInFlightOverall ==
    Cardinality(CallsInFlight) <= 3

====
